---- MODULE Spec2Model ----
(***************************************************************************)
(* A state-machine model of the niicojs/excel document model: the Workbook *)
(* sheet directory, relationship list, package file map and pivot          *)
(* registries, the worksheet XML round trip, the shared string table and   *)
(* the style table.  Text is modelled as sequences of one-character        *)
(* strings, so that parsing is computed and not assumed.                   *)
(***************************************************************************)
EXTENDS Integers, Sequences, FiniteSets, TLC

VARIABLES
    sheetDefs,       \* Workbook._sheetDefs: sequence of [name, sheetId, rId]
    relationships,   \* Workbook._relationships: sequence of [id, type, target]
    sheets,          \* Workbook._sheets: cached worksheets, name -> Worksheet
    wbDirty,         \* Workbook._dirty
    pivotTables,     \* Workbook._pivotTables
    pivotCaches,     \* Workbook._pivotCaches
    nextCacheId,     \* Workbook._nextCacheId
    files,           \* Workbook._files: part path -> content
    wbStrings,       \* the entries of the workbook's SharedStrings table
    wbSsDirty,       \* the dirty flag of the workbook's SharedStrings table
    last,            \* the last API call: its name and the error it threw ("" when none)
    everSheetIds,    \* every sheet id addSheet has allocated so far
    everRIds         \* every relationship id addSheet has allocated so far

wbVars == <<sheetDefs, relationships, sheets, wbDirty, pivotTables, pivotCaches,
            nextCacheId, files, wbStrings, wbSsDirty, last, everSheetIds, everRIds>>

(***************************************************************************)
(* Bounds of the model.                                                    *)
(***************************************************************************)
MaxId == 3          \* addSheet is explored while the allocated ids stay <= MaxId
MaxPivots == 1      \* createPivotTable is explored while fewer tables succeeded
MaxStrings == 1     \* distinct shared strings the cell writes may add

(***************************************************************************)
(* Generic helpers.                                                        *)
(***************************************************************************)
Range(s) == {s[i] : i \in DOMAIN s}

\* Math.max(0, ...S) for a set S of naturals
SetMax(S) == CHOOSE y \in S \cup {0} : \A z \in S \cup {0} : z <= y

RemoveAt(s, i) == SubSeq(s, 1, i - 1) \o SubSeq(s, i + 1, Len(s))

InsertAt(s, i, e) == SubSeq(s, 1, i - 1) \o <<e>> \o SubSeq(s, i, Len(s))

\* Array.prototype.findIndex, 1-based; 0 when absent
FindIndex(s, P(_)) == IF \E i \in DOMAIN s : P(s[i])
                      THEN CHOOSE i \in DOMAIN s : P(s[i]) /\ \A j \in 1..(i - 1) : ~P(s[j])
                      ELSE 0

(***************************************************************************)
(* Text: a string is a sequence of one-character strings.                  *)
(***************************************************************************)
Upper == <<"A","B","C","D","E","F","G","H","I","J","K","L","M",
           "N","O","P","Q","R","S","T","U","V","W","X","Y","Z">>

Lower == <<"a","b","c","d","e","f","g","h","i","j","k","l","m",
           "n","o","p","q","r","s","t","u","v","w","x","y","z">>

DigitChars == <<"0","1","2","3","4","5","6","7","8","9">>

IsLetter(c) == c \in Range(Upper) \cup Range(Lower)

IsDigit(c) == c \in Range(DigitChars)

\* charCodeAt(i) - 64 of the upper-cased letter
LetterCode(c) == CHOOSE k \in 1..26 : Upper[k] = c \/ Lower[k] = c

DigitVal(c) == (CHOOSE k \in 1..10 : DigitChars[k] = c) - 1

RECURSIVE ParseIntFrom(_, _)
ParseIntFrom(s, acc) == IF s = <<>> THEN acc
                        ELSE ParseIntFrom(Tail(s), acc * 10 + DigitVal(Head(s)))

\* parseInt(digits, 10) on a non-empty string of digits
ParseInt(s) == ParseIntFrom(s, 0)

RECURSIVE NatToStr(_)
NatToStr(n) == IF n < 10 THEN <<DigitChars[n + 1]>>
               ELSE NatToStr(n \div 10) \o <<DigitChars[(n % 10) + 1]>>

RECURSIVE SplitFrom(_, _, _)
SplitFrom(s, sep, cur) ==
    IF s = <<>> THEN <<cur>>
    ELSE IF Head(s) = sep THEN <<cur>> \o SplitFrom(Tail(s), sep, <<>>)
    ELSE SplitFrom(Tail(s), sep, Append(cur, Head(s)))

\* String.prototype.split(sep) for a one-character separator
Split(s, sep) == SplitFrom(s, sep, <<>>)

(***************************************************************************)
(* Address codec (utils/address.ts).                                       *)
(***************************************************************************)
RECURSIVE colToLetterLoop(_, _)
colToLetterLoop(n, result) ==
    IF n < 0 THEN result
    ELSE colToLetterLoop((n \div 26) - 1, <<Upper[(n % 26) + 1]>> \o result)

colToLetter(col) == colToLetterLoop(col, <<>>)

RECURSIVE letterToColLoop(_, _)
letterToColLoop(letters, col) ==
    IF letters = <<>> THEN col
    ELSE letterToColLoop(Tail(letters), col * 26 + LetterCode(Head(letters)))

\* A letterToCol that does not subtract one at the end
letterToColOneBased(letters) == letterToColLoop(letters, 0)

letterToCol(letters) == letterToColLoop(letters, 0) - 1

\* parseAddress: [ok |-> FALSE] models the thrown "Invalid cell address"
parseAddress(address) ==
    LET clean == SelectSeq(address, LAMBDA c : c # "$")
        cuts  == {k \in 1..(Len(clean) - 1) :
                     /\ \A i \in 1..k : IsLetter(clean[i])
                     /\ \A i \in (k + 1)..Len(clean) : IsDigit(clean[i])}
    IN  IF cuts = {} THEN [ok |-> FALSE, row |-> 0, col |-> 0]
        ELSE LET k == CHOOSE x \in cuts : TRUE
             IN  [ok  |-> TRUE,
                  row |-> ParseInt(SubSeq(clean, k + 1, Len(clean))) - 1,
                  col |-> letterToCol(SubSeq(clean, 1, k))]

toAddress(row, col) == colToLetter(col) \o NatToStr(row + 1)

\* parseRange: [ok |-> FALSE] models the thrown error
parseRange(range) ==
    LET parts == Split(range, ":")
        bad   == [ok |-> FALSE, start |-> [row |-> 0, col |-> 0], end |-> [row |-> 0, col |-> 0]]
    IN  IF Len(parts) = 1
        THEN LET a == parseAddress(parts[1])
             IN  IF a.ok THEN [ok |-> TRUE, start |-> [row |-> a.row, col |-> a.col],
                                            end   |-> [row |-> a.row, col |-> a.col]]
                 ELSE bad
        ELSE IF Len(parts) # 2 THEN bad
        ELSE LET a == parseAddress(parts[1])
                 b == parseAddress(parts[2])
             IN  IF a.ok /\ b.ok
                 THEN [ok |-> TRUE, start |-> [row |-> a.row, col |-> a.col],
                                    end   |-> [row |-> b.row, col |-> b.col]]
                 ELSE bad

(***************************************************************************)
(* Package parts.  A part path is a pair <<path prefix, number>>; the      *)
(* number is 0 for a part that exists once.                                *)
(***************************************************************************)
WorkbookPart == <<"xl/workbook.xml", 0>>

RelsPart == <<"xl/_rels/workbook.xml.rels", 0>>

ContentTypesPart == <<"[Content_Types].xml", 0>>

RootRelsPart == <<"_rels/.rels", 0>>

SharedStringsPart == <<"xl/sharedStrings.xml", 0>>

StylesPart == <<"xl/styles.xml", 0>>

SheetPart(n) == <<"xl/worksheets/sheet", n>>

SheetRelsPart(n) == <<"xl/worksheets/_rels/sheet", n>>

PivotCacheDefinitionPart(i) == <<"xl/pivotCache/pivotCacheDefinition", i>>

PivotCacheRecordsPart(i) == <<"xl/pivotCache/pivotCacheRecords", i>>

PivotCacheRelsPart(i) == <<"xl/pivotCache/_rels/pivotCacheDefinition", i>>

PivotTablePart(i) == <<"xl/pivotTables/pivotTable", i>>

PivotTableRelsPart(i) == <<"xl/pivotTables/_rels/pivotTable", i>>

\* Relationship targets are relative to xl/: `xl/${rel.target}`
SheetTarget(sheetId) == <<"worksheets/sheet", sheetId>>

XlPath(target) ==
    CASE target[1] = "worksheets/sheet" -> SheetPart(target[2])
      [] target[1] = "sharedStrings.xml" -> SharedStringsPart
      [] target[1] = "styles.xml" -> StylesPart
      [] target[1] = "pivotCache/pivotCacheDefinition" -> PivotCacheDefinitionPart(target[2])

\* rel.target.split('/').pop() under xl/worksheets/_rels/
SheetRelsPath(target) == SheetRelsPart(target[2])

HasFile(f, path) == path \in DOMAIN f

\* writeZipText: files.set(path, content)
WriteZipText(f, path, content) == (path :> content) @@ f

(***************************************************************************)
(* Inputs of the workbook operations.                                      *)
(***************************************************************************)
SheetNames == {<<"P">>, <<"Q">>, <<"R">>}

Indexes == {-1, 0}        \* -1 stands for an omitted index argument

DeleteIndexes == {0, 5}

CellSheets == {<<"P">>}

CellAddrs == {<<"A", "1">>}

SourceRanges == {<<"A", "1", ":", "B", "1">>, <<"A", ":", "1">>}

TargetCells == {<<"B", "3">>, <<"3">>}

Bang == <<"!">>

SourceRefs == {n \o Bang \o r : n \in {<<"P">>, <<"Q">>}, r \in SourceRanges}
              \cup {<<"P", "A", "1">>}

TargetRefs == {n \o Bang \o c : n \in {<<"P">>, <<"R">>}, c \in TargetCells}
              \cup {<<"R", "B", "3">>}

SharedStringValues == 1..MaxStrings

SaveNames == {<<"P">>, <<"Q">>}

SaveSourceRefs == {<<"P", "!", "A", "1">>}

SaveTargetRefs == {<<"Q", "!", "B", "3">>, <<"R", "!", "B", "3">>}

(***************************************************************************)
(* Workbook (src/types.ts, class Workbook).                                *)
(***************************************************************************)
NewWorksheet == [dirty |-> FALSE, cells |-> {}, merged |-> {}]

NoCall == [op |-> "create", err |-> ""]

Call(op, err) == [op |-> op, err |-> err]

WbInit ==
    /\ sheetDefs = <<>>
    /\ relationships = <<>>
    /\ sheets = <<>>
    /\ wbDirty = TRUE
    /\ pivotTables = <<>>
    /\ pivotCaches = <<>>
    /\ nextCacheId = 0
    /\ files = <<>>
    /\ wbStrings = {}
    /\ wbSsDirty = FALSE
    /\ last = NoCall
    /\ everSheetIds = {}
    /\ everRIds = {}

sheetNames == [i \in DOMAIN sheetDefs |-> sheetDefs[i].name]

HasSheetNamed(defs, name) == \E i \in DOMAIN defs : defs[i].name = name

DefNamed(defs, name) == defs[FindIndex(defs, LAMBDA d : d.name = name)]

\* Math.max(0, ...this._sheetDefs.map((s) => s.sheetId)) + 1
NextSheetId(defs) == SetMax({defs[i].sheetId : i \in DOMAIN defs}) + 1

\* Math.max(0, ...this._relationships.map((r) => parseInt(r.id.replace('rId', ''), 10) || 0)) + 1
\* (a relationship id "rIdN" is modelled by the number N)
NextRelId(rels) == SetMax({rels[i].id : i \in DOMAIN rels}) + 1

\* addSheet without its duplicate-name check
addSheetRejectsNever(defs, name) == FALSE

\* The duplicate-name check of addSheet
addSheetRejects(defs, name) == HasSheetNamed(defs, name)

\* The state of addSheet's three collections after a successful call
addSheetDefs(defs, rels, name, index) ==
    LET def == [name |-> name, sheetId |-> NextSheetId(defs), rId |-> NextRelId(rels)]
    IN  IF index >= 0 /\ index < Len(defs) THEN InsertAt(defs, index + 1, def)
        ELSE Append(defs, def)

addSheetRels(defs, rels) ==
    Append(rels, [id |-> NextRelId(rels), type |-> "worksheet",
                  target |-> SheetTarget(NextSheetId(defs))])

addSheetCache(cache, name) == (name :> NewWorksheet) @@ cache

WithinIds(defs, rels) == NextSheetId(defs) <= MaxId /\ NextRelId(rels) <= MaxId

AddSheet(name, index) ==
    IF addSheetRejects(sheetDefs, name)
    THEN /\ last' = Call("addSheet", "Sheet already exists")
         /\ UNCHANGED <<sheetDefs, relationships, sheets, wbDirty, pivotTables,
                        pivotCaches, nextCacheId, files, wbStrings, wbSsDirty, everSheetIds, everRIds>>
    ELSE /\ WithinIds(sheetDefs, relationships)
         /\ wbDirty' = TRUE
         /\ sheetDefs' = addSheetDefs(sheetDefs, relationships, name, index)
         /\ relationships' = addSheetRels(sheetDefs, relationships)
         /\ sheets' = addSheetCache(sheets, name)
         /\ last' = Call("addSheet", "")
         /\ everSheetIds' = everSheetIds \cup {NextSheetId(sheetDefs)}
         /\ everRIds' = everRIds \cup {NextRelId(relationships)}
         /\ UNCHANGED <<pivotTables, pivotCaches, nextCacheId, files, wbStrings, wbSsDirty>>

Without(f, k) == [x \in DOMAIN f \ {k} |-> f[x]]

\* The worksheet cache after sheet(name) for a name the directory holds.
\* sheet() returns the cached Worksheet when there is one; in a workbook made
\* by Workbook.create() every sheet definition has one (CacheCoversDirectory
\* at the end of the workbook section), and the worksheet parts of the loaded
\* packages of this model hold no cells, so a missing entry is the empty
\* Worksheet the code constructs and then parses the stored part into.
sheetCache(cache, name) ==
    IF name \in DOMAIN cache THEN cache ELSE (name :> NewWorksheet) @@ cache

\* deleteSheet without its last-sheet check
deleteSheetErrorNoLast(defs, index) ==
    IF index < 0 \/ index >= Len(defs) THEN "Sheet not found" ELSE ""

\* deleteSheet's two rejections, for a 0-based index (-1: name not found)
deleteSheetError(defs, index) ==
    IF index < 0 \/ index >= Len(defs) THEN "Sheet not found"
    ELSE IF Len(defs) = 1 THEN "Cannot delete the last sheet"
    ELSE ""

\* A removal that drops the relationship and all that follow it
deleteSheetRelsFrom(rels, rId) ==
    LET relIndex == FindIndex(rels, LAMBDA r : r.id = rId)
    IN  IF relIndex > 0 THEN SubSeq(rels, 1, relIndex - 1) ELSE rels

deleteSheetRels(rels, rId) ==
    LET relIndex == FindIndex(rels, LAMBDA r : r.id = rId)
    IN  IF relIndex > 0 THEN RemoveAt(rels, relIndex) ELSE rels

DeleteSheetAt(index) ==
    LET err == deleteSheetError(sheetDefs, index)
    IN  IF err # ""
        THEN /\ last' = Call("deleteSheet", err)
             /\ UNCHANGED <<sheetDefs, relationships, sheets, wbDirty, pivotTables,
                            pivotCaches, nextCacheId, files, wbStrings, wbSsDirty, everSheetIds, everRIds>>
        ELSE LET def == sheetDefs[index + 1]
             IN  /\ wbDirty' = TRUE
                 /\ sheetDefs' = RemoveAt(sheetDefs, index + 1)
                 /\ sheets' = Without(sheets, def.name)
                 /\ relationships' = deleteSheetRels(relationships, def.rId)
                 /\ last' = Call("deleteSheet", "")
                 /\ UNCHANGED <<pivotTables, pivotCaches, nextCacheId, files, wbStrings, wbSsDirty,
                                everSheetIds, everRIds>>

DeleteSheetByName(name) ==
    DeleteSheetAt(FindIndex(sheetDefs, LAMBDA d : d.name = name) - 1)

DeleteSheetByIndex(index) == DeleteSheetAt(index)

renameSheetError(defs, oldName, newName) ==
    IF ~HasSheetNamed(defs, oldName) THEN "Sheet not found"
    ELSE IF HasSheetNamed(defs, newName) THEN "Sheet already exists"
    ELSE ""

\* A renameSheet that caches a new Worksheet under the new name
renameSheetCacheFresh(cache, oldName, newName) ==
    IF oldName \in DOMAIN cache
    THEN (newName :> NewWorksheet) @@ Without(cache, oldName)
    ELSE cache

\* renameSheet re-keys the cached worksheet; the name setter marks it dirty
renameSheetCache(cache, oldName, newName) ==
    IF oldName \in DOMAIN cache
    THEN (newName :> [cache[oldName] EXCEPT !.dirty = TRUE]) @@ Without(cache, oldName)
    ELSE cache

renameSheetDefs(defs, oldName, newName) ==
    [defs EXCEPT ![FindIndex(defs, LAMBDA d : d.name = oldName)].name = newName]

RenameSheet(oldName, newName) ==
    LET err == renameSheetError(sheetDefs, oldName, newName)
    IN  IF err # ""
        THEN /\ last' = Call("renameSheet", err)
             /\ UNCHANGED <<sheetDefs, relationships, sheets, wbDirty, pivotTables,
                            pivotCaches, nextCacheId, files, wbStrings, wbSsDirty, everSheetIds, everRIds>>
        ELSE /\ wbDirty' = TRUE
             /\ sheets' = renameSheetCache(sheets, oldName, newName)
             /\ sheetDefs' = renameSheetDefs(sheetDefs, oldName, newName)
             /\ last' = Call("renameSheet", "")
             /\ UNCHANGED <<relationships, pivotTables, pivotCaches, nextCacheId, files,
                            wbStrings, wbSsDirty, everSheetIds, everRIds>>

\* The copy made by copySheet: every source cell is written (which marks
\* the new cell dirty) and every merged range is merged again
copiedWorksheet(source) ==
    [dirty  |-> source.cells # {} \/ source.merged # {},
     cells  |-> source.cells,
     merged |-> source.merged]

CopySheet(sourceName, newName) ==
    IF ~HasSheetNamed(sheetDefs, sourceName)
    THEN /\ last' = Call("copySheet", "Sheet not found")
         /\ UNCHANGED <<sheetDefs, relationships, sheets, wbDirty, pivotTables,
                        pivotCaches, nextCacheId, files, wbStrings, wbSsDirty, everSheetIds, everRIds>>
    ELSE LET cache1 == sheetCache(sheets, sourceName)
         IN  IF addSheetRejects(sheetDefs, newName)
             THEN /\ sheets' = cache1
                  /\ last' = Call("copySheet", "Sheet already exists")
                  /\ UNCHANGED <<sheetDefs, relationships, wbDirty, pivotTables,
                                 pivotCaches, nextCacheId, files, wbStrings, wbSsDirty,
                                 everSheetIds, everRIds>>
             ELSE /\ WithinIds(sheetDefs, relationships)
                  /\ wbDirty' = TRUE
                  /\ sheetDefs' = addSheetDefs(sheetDefs, relationships, newName, -1)
                  /\ relationships' = addSheetRels(sheetDefs, relationships)
                  /\ sheets' = (newName :> copiedWorksheet(cache1[sourceName])) @@ cache1
                  /\ last' = Call("copySheet", "")
                  /\ everSheetIds' = everSheetIds \cup {NextSheetId(sheetDefs)}
                  /\ everRIds' = everRIds \cup {NextRelId(relationships)}
                  /\ UNCHANGED <<pivotTables, pivotCaches, nextCacheId, files, wbStrings, wbSsDirty>>

\* wb.sheet(name).cell(addr).value = <the string numbered k>
SetCellString(name, addr, k) ==
    IF ~HasSheetNamed(sheetDefs, name)
    THEN /\ last' = Call("setCellString", "Sheet not found")
         /\ UNCHANGED <<sheetDefs, relationships, sheets, wbDirty, pivotTables,
                        pivotCaches, nextCacheId, files, wbStrings, wbSsDirty, everSheetIds, everRIds>>
    ELSE LET cache1 == sheetCache(sheets, name)
         IN  /\ sheets' = [cache1 EXCEPT ![name].cells = @ \cup {addr},
                                         ![name].dirty = TRUE]
             /\ wbStrings' = wbStrings \cup {k}
             /\ wbSsDirty' = TRUE
             /\ last' = Call("setCellString", "")
             /\ UNCHANGED <<sheetDefs, relationships, wbDirty, pivotTables, pivotCaches,
                            nextCacheId, files, everSheetIds, everRIds>>

\* _parseSheetRef: ref.match(/^(.+?)!(.+)$/); [ok |-> FALSE] models the
\* thrown "Invalid reference format"
parseSheetRef(ref) ==
    LET bangs == {i \in 2..(Len(ref) - 1) : ref[i] = "!"}
    IN  IF bangs = {} THEN [ok |-> FALSE, sheetName |-> <<>>, range |-> <<>>]
        ELSE LET i == CHOOSE x \in bangs : \A y \in bangs : x <= y
             IN  [ok        |-> TRUE,
                  sheetName |-> SubSeq(ref, 1, i - 1),
                  range     |-> SubSeq(ref, i + 1, Len(ref))]

\* The addresses _extractSourceData reads (and so creates) with sheet.cell:
\* the header row, then every later row of the range
extractedCells(range) ==
    {toAddress(range.start.row, c) : c \in range.start.col..range.end.col}
    \cup {toAddress(r, c) : r \in (range.start.row + 1)..range.end.row,
                            c \in range.start.col..range.end.col}

\* How far createPivotTable gets: the error it throws, "" when it succeeds
createPivotTableError(defs, source, target) ==
    LET src == parseSheetRef(source)
        tgt == parseSheetRef(target)
    IN  IF ~src.ok \/ ~tgt.ok THEN "Invalid reference format"
        ELSE IF ~parseAddress(tgt.range).ok THEN "Invalid cell address"
        ELSE IF ~(HasSheetNamed(defs, src.sheetName) \/ src.sheetName = tgt.sheetName)
             THEN "Sheet not found"
        ELSE IF ~parseRange(src.range).ok THEN "Invalid cell address"
        ELSE ""

\* Whether createPivotTable reaches `this.addSheet(targetSheet)` and calls it
createPivotTableAddsSheet(defs, source, target) ==
    /\ parseSheetRef(source).ok
    /\ parseSheetRef(target).ok
    /\ ~HasSheetNamed(defs, parseSheetRef(target).sheetName)

\* Whether createPivotTable reaches `this.sheet(sourceSheet)` and finds it
createPivotTableGetsSource(defs, source, target) ==
    /\ parseSheetRef(source).ok
    /\ parseSheetRef(target).ok
    /\ parseAddress(parseSheetRef(target).range).ok
    /\ \/ HasSheetNamed(defs, parseSheetRef(source).sheetName)
       \/ parseSheetRef(source).sheetName = parseSheetRef(target).sheetName

CreatePivotTable(name, source, target) ==
    LET src   == parseSheetRef(source)
        tgt   == parseSheetRef(target)
        err   == createPivotTableError(sheetDefs, source, target)
        adds  == createPivotTableAddsSheet(sheetDefs, source, target)
        gets  == createPivotTableGetsSource(sheetDefs, source, target)
        defs1 == IF adds THEN addSheetDefs(sheetDefs, relationships, tgt.sheetName, -1)
                 ELSE sheetDefs
        rels1 == IF adds THEN addSheetRels(sheetDefs, relationships) ELSE relationships
        c1    == IF adds THEN addSheetCache(sheets, tgt.sheetName) ELSE sheets
        c2    == IF gets THEN sheetCache(c1, src.sheetName) ELSE c1
        addr  == parseAddress(tgt.range)
        rng   == parseRange(src.range)
    IN  /\ adds => WithinIds(sheetDefs, relationships)
        /\ err = "" => Len(pivotTables) < MaxPivots
        /\ wbDirty' = TRUE
        /\ sheetDefs' = defs1
        /\ relationships' = rels1
        /\ everSheetIds' = IF adds THEN everSheetIds \cup {NextSheetId(sheetDefs)}
                           ELSE everSheetIds
        /\ everRIds' = IF adds THEN everRIds \cup {NextRelId(relationships)} ELSE everRIds
        /\ last' = Call("createPivotTable", err)
        /\ IF err = ""
           THEN /\ sheets' = [c2 EXCEPT ![src.sheetName].cells = @ \cup extractedCells(rng)]
                /\ nextCacheId' = nextCacheId + 1
                /\ pivotCaches' = Append(pivotCaches,
                       [cacheId |-> nextCacheId, sourceSheet |-> src.sheetName,
                        sourceRange |-> src.range])
                /\ pivotTables' = Append(pivotTables,
                       [name |-> name, cacheId |-> nextCacheId,
                        targetSheet |-> tgt.sheetName, targetCell |-> tgt.range,
                        row |-> addr.row + 1, col |-> addr.col,
                        index |-> Len(pivotTables) + 1])
           ELSE /\ sheets' = c2
                /\ UNCHANGED <<nextCacheId, pivotCaches, pivotTables>>
        /\ UNCHANGED <<files, wbStrings, wbSsDirty>>

(***************************************************************************)
(* Save orchestration: toBuffer / _updateFiles.                            *)
(***************************************************************************)
\* _updateWorkbookXml: the sheet directory and the pivot-cache directory
workbookXml(defs, rels, caches) ==
    [kind   |-> "workbook",
     sheets |-> defs,
     pivotCaches |-> [i \in 1..Len(caches) |->
                         [cacheId |-> caches[i].cacheId,
                          rId     |-> Len(rels) + 3 + (i - 1)]]]

HasRelOfType(rels, type) == \E i \in DOMAIN rels : rels[i].type = type

\* _updateRelationshipsXml: the stored relationships, then the ones added on save
relationshipsXml(rels, caches, strings) ==
    LET n0    == NextRelId(rels)
        addSS == Cardinality(strings) > 0 /\ ~HasRelOfType(rels, "sharedStrings")
        ss    == IF addSS
                 THEN <<[id |-> n0, type |-> "sharedStrings",
                         target |-> <<"sharedStrings.xml", 0>>]>>
                 ELSE <<>>
        n1    == IF addSS THEN n0 + 1 ELSE n0
        addSt == ~HasRelOfType(rels, "styles")
        st    == IF addSt
                 THEN <<[id |-> n1, type |-> "styles", target |-> <<"styles.xml", 0>>]>>
                 ELSE <<>>
        n2    == IF addSt THEN n1 + 1 ELSE n1
        pc    == [i \in 1..Len(caches) |->
                     [id |-> n2 + (i - 1), type |-> "pivotCacheDefinition",
                      target |-> <<"pivotCache/pivotCacheDefinition", i>>]]
    IN  [kind |-> "rels", rels |-> rels \o ss \o st \o pc]

\* The worksheet parts the manifest declares: one per sheet definition whose
\* relationship is found
declaredSheetParts(defs, rels) ==
    {XlPath(rels[ri].target) :
        ri \in {r \in DOMAIN rels : \E i \in DOMAIN defs : defs[i].rId = rels[r].id
                                    /\ r = FindIndex(rels, LAMBDA x : x.id = defs[i].rId)}}

\* _updateContentTypes: the Override part names of [Content_Types].xml
contentTypesXml(defs, rels, caches, tables, strings) ==
    [kind |-> "contentTypes",
     overrides |->
        {WorkbookPart, StylesPart}
        \cup (IF Cardinality(strings) > 0 THEN {SharedStringsPart} ELSE {})
        \cup declaredSheetParts(defs, rels)
        \cup {PivotCacheDefinitionPart(i) : i \in 1..Len(caches)}
        \cup {PivotCacheRecordsPart(i) : i \in 1..Len(caches)}
        \cup {PivotTablePart(i) : i \in 1..Len(tables)}]

\* Worksheet.toXml: the workbook model records that the part is a worksheet
worksheetXml(ws) == [kind |-> "worksheet"]

\* The cached worksheets _updateFiles writes, by the part each one goes to.
\* (Two cached sheets never share a part here: their targets carry the
\* distinct sheet ids of the current sheet definitions.)
writtenSheetNames(cache, defs, rels, dirty) ==
    {n \in DOMAIN cache :
        /\ cache[n].dirty \/ dirty
        /\ HasSheetNamed(defs, n)
        /\ FindIndex(rels, LAMBDA r : r.id = DefNamed(defs, n).rId) > 0}

SheetPathOf(defs, rels, n) ==
    XlPath(rels[FindIndex(rels, LAMBDA r : r.id = DefNamed(defs, n).rId)].target)

worksheetWrites(cache, defs, rels, dirty) ==
    LET names == writtenSheetNames(cache, defs, rels, dirty)
    IN  [p \in {SheetPathOf(defs, rels, n) : n \in names} |->
            worksheetXml(cache[CHOOSE n \in names : SheetPathOf(defs, rels, n) = p])]

\* _updatePivotTableFiles
pivotTableWrites(defs, rels, caches, tables) ==
    LET targets == {tables[i].targetSheet : i \in DOMAIN tables}
        linked  == {n \in targets :
                       /\ HasSheetNamed(defs, n)
                       /\ FindIndex(rels, LAMBDA r : r.id = DefNamed(defs, n).rId) > 0}
        relTarget(n) == rels[FindIndex(rels, LAMBDA r : r.id = DefNamed(defs, n).rId)].target
        ptsOf(n) == SelectSeq(tables, LAMBDA t : t.targetSheet = n)
    IN  [p \in {PivotCacheDefinitionPart(i) : i \in DOMAIN caches} |->
            [kind |-> "pivotCacheDefinition", cacheId |-> caches[p[2]].cacheId]]
        @@ [p \in {PivotCacheRecordsPart(i) : i \in DOMAIN caches} |->
            [kind |-> "pivotCacheRecords", cacheId |-> caches[p[2]].cacheId]]
        @@ [p \in {PivotCacheRelsPart(i) : i \in DOMAIN caches} |->
            [kind |-> "rels", target |-> <<"pivotCacheRecords", p[2]>>]]
        @@ [p \in {PivotTablePart(i) : i \in DOMAIN tables} |->
            [kind |-> "pivotTable", name |-> tables[p[2]].name]]
        @@ [p \in {PivotTableRelsPart(i) : i \in DOMAIN tables} |->
            [kind |-> "rels",
             target |-> <<"../pivotCache/pivotCacheDefinition",
                          FindIndex(caches, LAMBDA c : c.cacheId = tables[p[2]].cacheId)>>]]
        @@ [p \in {SheetRelsPath(relTarget(n)) : n \in linked} |->
            [kind |-> "rels",
             rels |-> LET n == CHOOSE m \in linked : SheetRelsPath(relTarget(m)) = p
                      IN  [i \in 1..Len(ptsOf(n)) |->
                              [id |-> i, type |-> "pivotTable",
                               target |-> <<"../pivotTables/pivotTable", ptsOf(n)[i].index>>]]]]

\* SharedStrings.toXml: the sst element it writes carries the attributes
\* count and uniqueCount
sharedStringsXml(strings) ==
    [kind |-> "sharedStrings", strings |-> strings, countAttr |-> TRUE]

\* _updateFiles: the file map after a save
updateFiles(f, defs, rels, cache, dirty, caches, tables, strings) ==
    LET f1 == WriteZipText(f, WorkbookPart, workbookXml(defs, rels, caches))
        f2 == WriteZipText(f1, RelsPart, relationshipsXml(rels, caches, strings))
        f3 == WriteZipText(f2, ContentTypesPart,
                           contentTypesXml(defs, rels, caches, tables, strings))
        f4 == IF HasFile(f3, RootRelsPart) THEN f3
              ELSE WriteZipText(f3, RootRelsPart, [kind |-> "rels", target |-> WorkbookPart])
        \* sharedStrings.dirty || sharedStrings.count > 0: a dirty table has an entry
        f5 == IF Cardinality(strings) > 0
              THEN WriteZipText(f4, SharedStringsPart, sharedStringsXml(strings))
              ELSE f4
        \* styles.dirty || this._dirty || the part is missing: no operation of
        \* the workbook model creates a style, so styles.dirty is false
        f6 == IF dirty \/ ~HasFile(f5, StylesPart)
              THEN WriteZipText(f5, StylesPart, [kind |-> "styles"])
              ELSE f5
        f7 == worksheetWrites(cache, defs, rels, dirty) @@ f6
    IN  IF Len(tables) > 0 THEN pivotTableWrites(defs, rels, caches, tables) @@ f7 ELSE f7

ToBuffer ==
    /\ files' = updateFiles(files, sheetDefs, relationships, sheets, wbDirty,
                            pivotCaches, pivotTables, wbStrings)
    /\ last' = Call("toBuffer", "")
    /\ UNCHANGED <<sheetDefs, relationships, sheets, wbDirty, pivotTables, pivotCaches,
                   nextCacheId, wbStrings, wbSsDirty, everSheetIds, everRIds>>

(***************************************************************************)
(* SharedStrings (shared-strings.ts).                                      *)
(***************************************************************************)
VARIABLES
    ss,              \* a SharedStrings table: entries, stringToIndex, _totalCount, _dirty
    ssCalls          \* the addString calls made on it: sequence of [str, index]

ssVars == <<ss, ssCalls>>

MaxAddStrings == 4  \* addString calls explored on one table

SsStrings == {<<"a">>, <<"b">>, <<"a", "b">>}

\* new SharedStrings()
NewSharedStrings ==
    [entries |-> <<>>, stringToIndex |-> <<>>, totalCount |-> 0, dirty |-> FALSE]

\* addString counting a use only when the string is new
addStringCountsNew(t, str) ==
    IF str \in DOMAIN t.stringToIndex
    THEN [table |-> [t EXCEPT !.dirty = TRUE], index |-> t.stringToIndex[str]]
    ELSE [table |-> [entries       |-> Append(t.entries, str),
                     stringToIndex |-> (str :> Len(t.entries)) @@ t.stringToIndex,
                     totalCount    |-> t.totalCount + 1,
                     dirty         |-> TRUE],
          index |-> Len(t.entries)]

\* addString: the table after the call and the (0-based) index returned
addString(t, str) ==
    IF str \in DOMAIN t.stringToIndex
    THEN [table |-> [t EXCEPT !.totalCount = @ + 1, !.dirty = TRUE],
          index |-> t.stringToIndex[str]]
    ELSE [table |-> [entries       |-> Append(t.entries, str),
                     stringToIndex |-> (str :> Len(t.entries)) @@ t.stringToIndex,
                     totalCount    |-> t.totalCount + 1,
                     dirty         |-> TRUE],
          index |-> Len(t.entries)]

\* getString(index): this.entries[index]?.text; <<"undefined">> when absent
getString(t, index) ==
    IF index >= 0 /\ index < Len(t.entries) THEN t.entries[index + 1] ELSE <<"undefined">>

\* get count()
ssCount(t) == Len(t.entries)

\* get totalCount(): Math.max(this._totalCount, this.entries.length)
ssTotalCount(t) == IF t.totalCount >= Len(t.entries) THEN t.totalCount ELSE Len(t.entries)

SsInit ==
    /\ ss = NewSharedStrings
    /\ ssCalls = <<>>

AddString(str) ==
    /\ Len(ssCalls) < MaxAddStrings
    /\ ss' = addString(ss, str).table
    /\ ssCalls' = Append(ssCalls, [str |-> str, index |-> addString(ss, str).index])

(***************************************************************************)
(* Styles (styles.ts).  A CellStyle argument is the sequence of its        *)
(* <<property, value>> pairs in insertion order; values are text.          *)
(***************************************************************************)
VARIABLES
    styles,          \* a Styles table: _numFmts, _fonts, _fills, _borders, _cellXfs, _styleCache
    styleCalls,      \* the createStyle calls made on it: set of [style, index]
    numFmtIds,       \* every <<code, id>> _findOrCreateNumFmt has returned
    lastNumFmt       \* the last getOrCreateNumFmtId call: [code, id, allocated]

stVars == <<styles, styleCalls, numFmtIds, lastNumFmt>>

MaxStyles == 3      \* cell formats createStyle may add to the default one
MaxNumFmts == 2     \* number formats a table may hold

\* Custom number formats start above this id
CustomNumFmtBase == 164

Undefined == "undefined"

\* style[prop], Undefined when the property is absent
Prop(style, prop) ==
    IF \E i \in DOMAIN style : style[i][1] = prop
    THEN style[CHOOSE i \in DOMAIN style : style[i][1] = prop][2]
    ELSE Undefined

\* JSON.stringify(style): the properties in insertion order, those whose
\* value is undefined left out
RECURSIVE JsonMembers(_)
JsonMembers(style) ==
    IF style = <<>> THEN <<>>
    ELSE LET rest == JsonMembers(Tail(style))
             this == <<"\"" \o Head(style)[1] \o "\":\"" \o Head(style)[2] \o "\"">>
         IN  IF Head(style)[2] = Undefined THEN rest
             ELSE IF rest = <<>> THEN this
             ELSE this \o <<",">> \o rest

JsonStringify(style) == <<"{">> \o JsonMembers(style) \o <<"}">>

\* Styles.createDefault()
DefaultFont ==
    [bold |-> FALSE, italic |-> FALSE, underline |-> FALSE, strike |-> FALSE,
     size |-> "11", name |-> "Calibri", color |-> Undefined]

NoBorder == [top |-> Undefined, bottom |-> Undefined, left |-> Undefined, right |-> Undefined]

createDefault ==
    [numFmts    |-> <<>>,
     fonts      |-> <<DefaultFont>>,
     fills      |-> <<[type |-> "none", fgColor |-> Undefined],
                      [type |-> "gray125", fgColor |-> Undefined]>>,
     borders    |-> <<NoBorder>>,
     cellXfs    |-> <<[fontId |-> 0, fillId |-> 0, borderId |-> 0, numFmtId |-> 0]>>,
     styleCache |-> <<>>,
     dirty      |-> FALSE]

\* Find an element in a list or push it: the list after, and the 0-based id
FindOrPush(list, e) ==
    IF FindIndex(list, LAMBDA x : x = e) > 0
    THEN [list |-> list, id |-> FindIndex(list, LAMBDA x : x = e) - 1]
    ELSE [list |-> Append(list, e), id |-> Len(list)]

\* _findOrCreateFont
findOrCreateFont(fonts, style) ==
    FindOrPush(fonts,
        [bold      |-> Prop(style, "bold") = "true",
         italic    |-> Prop(style, "italic") = "true",
         underline |-> Prop(style, "underline") \in {"true", "single", "double"},
         strike    |-> Prop(style, "strike") = "true",
         size      |-> Prop(style, "fontSize"),
         name      |-> Prop(style, "fontName"),
         color     |-> Prop(style, "fontColor")])

\* _findOrCreateFill
findOrCreateFill(fills, style) ==
    IF Prop(style, "fill") = Undefined THEN [list |-> fills, id |-> 0]
    ELSE IF FindIndex(fills, LAMBDA f : f.fgColor = Prop(style, "fill")) > 0
    THEN [list |-> fills,
          id   |-> FindIndex(fills, LAMBDA f : f.fgColor = Prop(style, "fill")) - 1]
    ELSE [list |-> Append(fills, [type |-> "solid", fgColor |-> Prop(style, "fill")]),
          id   |-> Len(fills)]

\* _findOrCreateBorder; the value of a border property stands for { top: value }
findOrCreateBorder(borders, style) ==
    IF Prop(style, "border") = Undefined THEN [list |-> borders, id |-> 0]
    ELSE FindOrPush(borders, [NoBorder EXCEPT !.top = Prop(style, "border")])

\* _findOrCreateNumFmt allocating without looking the code up
findOrCreateNumFmtAlways(numFmts, format) ==
    LET id == SetMax({CustomNumFmtBase} \cup {numFmts[i].id : i \in DOMAIN numFmts}) + 1
    IN  [numFmts |-> Append(numFmts, [id |-> id, code |-> format]), id |-> id]

\* _findOrCreateNumFmt: _numFmts is a Map, modelled in insertion order
findOrCreateNumFmt(numFmts, format) ==
    IF FindIndex(numFmts, LAMBDA e : e.code = format) > 0
    THEN [numFmts |-> numFmts,
          id      |-> numFmts[FindIndex(numFmts, LAMBDA e : e.code = format)].id]
    ELSE LET id == SetMax({CustomNumFmtBase} \cup {numFmts[i].id : i \in DOMAIN numFmts}) + 1
         IN  [numFmts |-> Append(numFmts, [id |-> id, code |-> format]), id |-> id]

\* createStyle: the table after the call and the index returned
createStyle(st, style) ==
    LET key    == JsonStringify(style)
        font   == findOrCreateFont(st.fonts, style)
        fill   == findOrCreateFill(st.fills, style)
        border == findOrCreateBorder(st.borders, style)
        numFmt == IF Prop(style, "numberFormat") \in {Undefined, ""}
                  THEN [numFmts |-> st.numFmts, id |-> 0]
                  ELSE findOrCreateNumFmt(st.numFmts, Prop(style, "numberFormat"))
        xf     == [fontId |-> font.id, fillId |-> fill.id, borderId |-> border.id,
                   numFmtId |-> numFmt.id]
    IN  IF key \in DOMAIN st.styleCache
        THEN [styles |-> st, index |-> st.styleCache[key]]
        ELSE [styles |-> [numFmts    |-> numFmt.numFmts,
                          fonts      |-> font.list,
                          fills      |-> fill.list,
                          borders    |-> border.list,
                          cellXfs    |-> Append(st.cellXfs, xf),
                          styleCache |-> (key :> Len(st.cellXfs)) @@ st.styleCache,
                          dirty      |-> TRUE],
              index |-> Len(st.cellXfs)]

\* The fixed table of built-in format codes and their reserved ids
BuiltinNumFmts ==
    ("General" :> 0) @@ ("0" :> 1) @@ ("0.00" :> 2) @@ ("#,##0" :> 3)
    @@ ("#,##0.00" :> 4) @@ ("0%" :> 9) @@ ("0.00%" :> 10)
    @@ ("mm-dd-yy" :> 14) @@ ("d-mmm-yy" :> 15) @@ ("@" :> 49)

\* getOrCreateNumFmtId never consulting the built-in table
getOrCreateNumFmtIdCustomOnly(st, format) ==
    [styles |-> [st EXCEPT !.numFmts = findOrCreateNumFmt(st.numFmts, format).numFmts],
     id     |-> findOrCreateNumFmt(st.numFmts, format).id]

\* getOrCreateNumFmtId: a built-in code gets its reserved id, any other code
\* the id _findOrCreateNumFmt finds or allocates
getOrCreateNumFmtId(st, format) ==
    IF format \in DOMAIN BuiltinNumFmts
    THEN [styles |-> st, id |-> BuiltinNumFmts[format]]
    ELSE [styles |-> [st EXCEPT !.numFmts = findOrCreateNumFmt(st.numFmts, format).numFmts],
          id     |-> findOrCreateNumFmt(st.numFmts, format).id]

StyleArgs ==
    {<<>>,
     <<<<"bold", "true">>, <<"italic", "true">>>>,
     <<<<"italic", "true">>, <<"bold", "true">>>>,
     <<<<"fill", "FFFF00">>>>,
     <<<<"border", "thin">>>>,
     <<<<"numberFormat", "yyyy-mm-dd">>>>,
     <<<<"bold", "true">>, <<"numberFormat", "0.00">>>>}

CustomCodes == {"$#,##0.00", "yyyy-mm-dd"}

NumFmtCodes == DOMAIN BuiltinNumFmts \cup CustomCodes

\* A table made by createDefault()
StInit ==
    /\ styles = createDefault
    /\ styleCalls = {}
    /\ numFmtIds = {}
    /\ lastNumFmt = [code |-> "", id |-> 0, allocated |-> FALSE]

\* A table made by createDefault(), or parsed from a styles part that holds
\* one custom number format
StInitAny ==
    /\ styles \in {createDefault,
                   [createDefault EXCEPT
                       !.numFmts = <<[id |-> CustomNumFmtBase, code |-> "$#,##0.00"]>>]}
    /\ styleCalls = {}
    /\ numFmtIds = {}
    /\ lastNumFmt = [code |-> "", id |-> 0, allocated |-> FALSE]

CreateStyle(style) ==
    LET r == createStyle(styles, style)
    IN  /\ Len(r.styles.cellXfs) <= MaxStyles + 1
        /\ Len(r.styles.numFmts) <= MaxNumFmts
        /\ styles' = r.styles
        /\ styleCalls' = styleCalls \cup {[style |-> style, index |-> r.index]}
        /\ numFmtIds' = IF Len(r.styles.cellXfs) > Len(styles.cellXfs)
                           /\ Prop(style, "numberFormat") \notin {Undefined, ""}
                        THEN numFmtIds \cup
                             {<<Prop(style, "numberFormat"),
                                r.styles.cellXfs[Len(r.styles.cellXfs)].numFmtId>>}
                        ELSE numFmtIds
        /\ UNCHANGED lastNumFmt

GetOrCreateNumFmtId(format) ==
    LET r == getOrCreateNumFmtId(styles, format)
    IN  /\ Len(r.styles.numFmts) <= MaxNumFmts
        /\ styles' = r.styles
        /\ lastNumFmt' = [code |-> format, id |-> r.id,
                          allocated |-> r.styles.numFmts # styles.numFmts]
        /\ numFmtIds' = IF format \in DOMAIN BuiltinNumFmts THEN numFmtIds
                        ELSE numFmtIds \cup {<<format, r.id>>}
        /\ UNCHANGED styleCalls

(***************************************************************************)
(* Cell (cell.ts): the stored CellData and the value the API shows.        *)
(* A stored v is [k, n, s]: undefined, a number n or the text s.  An API   *)
(* value is [type, n, s]; a date is the UTC day n = yyyymmdd at midnight.  *)
(***************************************************************************)
UndefV == [k |-> "undef", n |-> 0, s |-> <<>>]

NumV(n) == [k |-> "num", n |-> n, s |-> <<>>]

NaNV == [k |-> "nan", n |-> 0, s |-> <<>>]

TextV(s) == [k |-> "text", n |-> 0, s |-> s]

\* An absent attribute, element or optional string
None == [has |-> FALSE, s |-> <<>>]

Some(s) == [has |-> TRUE, s |-> s]

NullValue == [type |-> "null", n |-> 0, s |-> <<>>]

NumberValue(n) == [type |-> "number", n |-> n, s |-> <<>>]

StringValue(s) == [type |-> "string", n |-> 0, s |-> s]

BooleanValue(b) == [type |-> "boolean", n |-> IF b THEN 1 ELSE 0, s |-> <<>>]

DateValue(day) == [type |-> "date", n |-> day, s |-> <<>>]

InvalidDate == [type |-> "invalid-date", n |-> 0, s |-> <<>>]

ErrorValue(s) == [type |-> "error", n |-> 0, s |-> s]

\* new Cell(worksheet, row, col): data = {}
EmptyCellData == [t |-> "", v |-> UndefV, f |-> None, s |-> -1]

\* String(n) for an integer
IntToStr(n) == IF n < 0 THEN <<"-">> \o NatToStr(-n) ELSE NatToStr(n)

\* The digits of n, zero-padded on the left to `width` characters
RECURSIVE PadStart(_, _)
PadStart(s, width) == IF Len(s) >= width THEN s ELSE PadStart(<<"0">> \o s, width)

\* Date.prototype.toISOString for a UTC midnight
toISOString(day) ==
    PadStart(NatToStr(day \div 10000), 4) \o <<"-">>
    \o PadStart(NatToStr((day \div 100) % 100), 2) \o <<"-">>
    \o PadStart(NatToStr(day % 100), 2)
    \o <<"T", "0", "0", ":", "0", "0", ":", "0", "0", ".", "0", "0", "0", "Z">>

AllDigits(s) == \A i \in DOMAIN s : IsDigit(s[i])

\* new Date(text) for the date-time forms of the ECMAScript format: a year
\* alone is the first of January; any other text is an Invalid Date here
DateFromString(s) ==
    IF Len(s) = 4 /\ AllDigits(s) THEN DateValue(ParseInt(s) * 10000 + 101)
    ELSE IF /\ Len(s) = 24
            /\ AllDigits(SubSeq(s, 1, 4)) /\ s[5] = "-"
            /\ AllDigits(SubSeq(s, 6, 7)) /\ s[8] = "-"
            /\ AllDigits(SubSeq(s, 9, 10))
            /\ SubSeq(s, 11, 24) = SubSeq(toISOString(0), 11, 24)
         THEN DateValue(ParseInt(SubSeq(s, 1, 4)) * 10000
                        + ParseInt(SubSeq(s, 6, 7)) * 100 + ParseInt(SubSeq(s, 9, 10)))
    ELSE InvalidDate

\* The longest prefix of digits
RECURSIVE DigitPrefix(_)
DigitPrefix(s) ==
    IF s # <<>> /\ IsDigit(Head(s)) THEN <<Head(s)>> \o DigitPrefix(Tail(s)) ELSE <<>>

\* parseFloat(text) / parseInt(text, 10) on text whose numeric prefix is an
\* integer: an optional sign and the digits that follow; NaN without digits
ParseNumber(s) ==
    LET neg  == s # <<>> /\ Head(s) = "-"
        body == IF s # <<>> /\ Head(s) \in {"-", "+"} THEN Tail(s) ELSE s
        ds   == DigitPrefix(body)
    IN  IF ds = <<>> THEN NaNV
        ELSE NumV(IF neg THEN -ParseInt(ds) ELSE ParseInt(ds))

\* String(v) for a stored value
StringOf(v) ==
    CASE v.k = "num"   -> IntToStr(v.n)
      [] v.k = "text"  -> v.s
      [] v.k = "nan"   -> <<"N", "a", "N">>
      [] v.k = "undef" -> <<"u", "n", "d", "e", "f", "i", "n", "e", "d">>

ERROR_TYPES == {<<"#", "N", "/", "A">>, <<"#", "R", "E", "F", "!">>}

\* A value setter that clears the formula only when the value is null
setValueKeepsFormula(data, val, strings) ==
    CASE val.type = "null" ->
            [data |-> [data EXCEPT !.v = UndefV, !.t = "", !.f = None], strings |-> strings]
      [] val.type = "number" ->
            [data |-> [data EXCEPT !.v = NumV(val.n), !.t = "n"], strings |-> strings]
      [] val.type = "string" ->
            [data |-> [data EXCEPT !.v = NumV(addString(strings, val.s).index), !.t = "s"],
             strings |-> addString(strings, val.s).table]
      [] val.type = "boolean" ->
            [data |-> [data EXCEPT !.v = NumV(val.n), !.t = "b"], strings |-> strings]
      [] val.type = "date" ->
            [data |-> [data EXCEPT !.v = TextV(toISOString(val.n)), !.t = "d"],
             strings |-> strings]
      [] val.type = "error" ->
            [data |-> [data EXCEPT !.v = TextV(val.s), !.t = "e"], strings |-> strings]

\* set value(val): the cell data and the shared string table after it
setValue(data, val, strings) ==
    CASE val.type = "null" ->
            [data |-> [data EXCEPT !.v = UndefV, !.t = "", !.f = None], strings |-> strings]
      [] val.type = "number" ->
            [data |-> [data EXCEPT !.v = NumV(val.n), !.t = "n", !.f = None],
             strings |-> strings]
      [] val.type = "string" ->
            [data |-> [data EXCEPT !.v = NumV(addString(strings, val.s).index),
                                   !.t = "s", !.f = None],
             strings |-> addString(strings, val.s).table]
      [] val.type = "boolean" ->
            [data |-> [data EXCEPT !.v = NumV(val.n), !.t = "b", !.f = None],
             strings |-> strings]
      [] val.type = "date" ->
            [data |-> [data EXCEPT !.v = TextV(toISOString(val.n)), !.t = "d", !.f = None],
             strings |-> strings]
      [] val.type = "error" ->
            [data |-> [data EXCEPT !.v = TextV(val.s), !.t = "e", !.f = None],
             strings |-> strings]

\* set formula(f): a leading '=' is removed
setFormula(data, f) ==
    [data EXCEPT !.f = Some(IF f # <<>> /\ Head(f) = "=" THEN Tail(f) ELSE f)]

\* A number read back as an API value
NumberOf(v) == IF v.k = "num" THEN NumberValue(v.n) ELSE [NullValue EXCEPT !.type = "NaN"]

\* get value()
getValue(data, strings) ==
    IF data.v.k = "undef" /\ (~data.f.has \/ data.f.s = <<>>) THEN NullValue
    ELSE CASE data.t = "n" ->
                 IF data.v.k = "num" THEN NumberValue(data.v.n)
                 ELSE NumberOf(ParseNumber(StringOf(data.v)))
           [] data.t = "s" ->
                 IF data.v.k = "num"
                 THEN (IF data.v.n >= 0 /\ data.v.n < Len(strings.entries)
                       THEN StringValue(getString(strings, data.v.n))
                       ELSE StringValue(<<>>))
                 ELSE StringValue(StringOf(data.v))
           [] data.t = "str" -> StringValue(StringOf(data.v))
           [] data.t = "b" ->
                 BooleanValue(data.v = NumV(1) \/ data.v = TextV(<<"1">>))
           [] data.t = "e" -> ErrorValue(StringOf(data.v))
           [] data.t = "d" -> DateFromString(StringOf(data.v))
           [] OTHER ->
                 IF data.v.k \in {"num", "nan"} THEN NumberOf(data.v)
                 ELSE IF data.v.k = "text"
                 THEN (IF data.v.s \in ERROR_TYPES THEN ErrorValue(data.v.s)
                       ELSE StringValue(data.v.s))
                 ELSE NullValue

\* get formula(): None stands for undefined
getFormula(data) == data.f

(***************************************************************************)
(* Worksheet (worksheet.ts) and its XML round trip.  The XML document is   *)
(* the element tree toXml hands to stringifyXml and parse gets back from   *)
(* parseXml; attribute values and text nodes are text.                     *)
(***************************************************************************)
VARIABLES
    ws,              \* a Worksheet: _cells, _mergedCells, _columnWidths, _rowHeights, _frozenPane
    rtStrings,       \* the SharedStrings table of the workbook that holds it
    rtLoaded,        \* whether the workbook is the one fromBuffer returned
    rtLast           \* per cell: its most recent assignment and whether it had a formula then

rtVars == <<ws, rtStrings, rtLoaded, rtLast>>

MaxStringUses == 2  \* string writes explored (each one counts a use)

NoPane == [set |-> FALSE, row |-> 0, col |-> 0]

\* new Worksheet(workbook, name)
EmptyWorksheet ==
    [cells |-> <<>>, mergedCells |-> {}, columnWidths |-> <<>>, rowHeights |-> <<>>,
     frozenPane |-> NoPane]

\* The elements of a finite set of integers in increasing order
RECURSIVE SortedSeq(_)
SortedSeq(S) ==
    IF S = {} THEN <<>>
    ELSE LET m == CHOOSE x \in S : \A y \in S : x <= y
         IN  <<m>> \o SortedSeq(S \ {m})

\* cell(address): the cell map with the cell at toAddress(row, col) created
\* when it is missing
cellAt(cells, address) ==
    LET a   == parseAddress(address)
        key == toAddress(a.row, a.col)
    IN  IF key \in DOMAIN cells THEN cells ELSE (key :> EmptyCellData) @@ cells

CellKey(address) == toAddress(parseAddress(address).row, parseAddress(address).col)

\* _buildCellNode
buildCellNode(address, data) ==
    [r |-> address,
     t |-> IF data.t # "" /\ data.t # "n" THEN Some(data.t) ELSE None,
     s |-> IF data.s # -1 THEN Some(IntToStr(data.s)) ELSE None,
     f |-> IF data.f.has /\ data.f.s # <<>> THEN Some(data.f.s) ELSE None,
     v |-> IF data.v.k # "undef" THEN Some(StringOf(data.v)) ELSE None]

\* _buildSheetDataNode: rows in row order, the cells of a row in column order
buildSheetDataNode(w) ==
    LET rowOf(a)  == parseAddress(a).row
        colOf(a)  == parseAddress(a).col
        rowIdxs   == {rowOf(a) : a \in DOMAIN w.cells} \cup DOMAIN w.rowHeights
        cellsOf(r) == {a \in DOMAIN w.cells : rowOf(a) = r}
        addrAt(r, c) == CHOOSE a \in cellsOf(r) : colOf(a) = c
        rowNode(r) ==
            LET cols == SortedSeq({colOf(a) : a \in cellsOf(r)})
            IN  [r  |-> NatToStr(r + 1),
                 ht |-> IF r \in DOMAIN w.rowHeights THEN Some(IntToStr(w.rowHeights[r]))
                        ELSE None,
                 cells |-> [i \in DOMAIN cols |->
                               buildCellNode(addrAt(r, cols[i]), w.cells[addrAt(r, cols[i])])]]
        sortedRows == SortedSeq(rowIdxs)
    IN  [i \in DOMAIN sortedRows |-> rowNode(sortedRows[i])]

\* toXml for a worksheet that was not parsed from a part
toXml(w) ==
    [pane |->
        IF w.frozenPane.set
        THEN [has    |-> TRUE,
              state  |-> "frozen",
              topLeftCell |-> toAddress(w.frozenPane.row, w.frozenPane.col),
              xSplit |-> IF w.frozenPane.col > 0 THEN Some(IntToStr(w.frozenPane.col))
                         ELSE None,
              ySplit |-> IF w.frozenPane.row > 0 THEN Some(IntToStr(w.frozenPane.row))
                         ELSE None]
        ELSE [has |-> FALSE, state |-> "", topLeftCell |-> <<>>,
              xSplit |-> None, ySplit |-> None],
     cols |->
        LET idxs == SortedSeq(DOMAIN w.columnWidths)
        IN  [i \in DOMAIN idxs |->
                [min   |-> IntToStr(idxs[i] + 1),
                 max   |-> IntToStr(idxs[i] + 1),
                 width |-> IntToStr(w.columnWidths[idxs[i]])]],
     sheetData  |-> buildSheetDataNode(w),
     mergeCells |-> {[ref |-> r] : r \in w.mergedCells}]

\* getAttr(node, name) || '0', parsed as a number
AttrNumber(attr) == ParseNumber(IF attr.has /\ attr.s # <<>> THEN attr.s ELSE <<"0">>)

\* _parseCellNode
parseCellNode(node) ==
    LET t == IF node.t.has THEN node.t.s ELSE ""
        v == IF ~node.v.has THEN UndefV
             ELSE IF t = "s" THEN ParseNumber(node.v.s)
             ELSE IF t = "b" THEN NumV(IF node.v.s = <<"1">> THEN 1 ELSE 0)
             ELSE IF t = "e" \/ t = "str" THEN TextV(node.v.s)
             ELSE ParseNumber(node.v.s)
    IN  [t |-> t,
         v |-> v,
         f |-> IF node.f.has THEN Some(node.f.s) ELSE None,
         s |-> IF node.s.has /\ node.s.s # <<>> THEN ParseNumber(node.s.s).n ELSE -1]

\* parse / _parseSheetData on a new Worksheet
parse(xml) ==
    LET xSplit == AttrNumber(xml.pane.xSplit).n
        ySplit == AttrNumber(xml.pane.ySplit).n
        rows   == xml.sheetData
        cellNodes == UNION {{<<i, j>> : j \in DOMAIN rows[i].cells} : i \in DOMAIN rows}
        heightRows == {i \in DOMAIN rows :
                          /\ AttrNumber(Some(rows[i].r)).n - 1 >= 0
                          /\ AttrNumber(rows[i].ht).k = "num"
                          /\ AttrNumber(rows[i].ht).n > 0}
        widthCols == {i \in DOMAIN xml.cols :
                          /\ AttrNumber(Some(xml.cols[i].width)).k = "num"
                          /\ AttrNumber(Some(xml.cols[i].width)).n > 0
                          /\ AttrNumber(Some(xml.cols[i].min)).n > 0
                          /\ AttrNumber(Some(xml.cols[i].max)).n > 0}
        colWidth(c) == xml.cols[CHOOSE i \in widthCols :
                           /\ AttrNumber(Some(xml.cols[i].min)).n <= c + 1
                           /\ c + 1 <= AttrNumber(Some(xml.cols[i].max)).n
                           /\ \A j \in widthCols :
                                 (/\ AttrNumber(Some(xml.cols[j].min)).n <= c + 1
                                  /\ c + 1 <= AttrNumber(Some(xml.cols[j].max)).n) => j <= i]
    IN  [frozenPane |->
            IF xml.pane.has /\ xml.pane.state = "frozen" /\ (xSplit > 0 \/ ySplit > 0)
            THEN [set |-> TRUE, row |-> ySplit, col |-> xSplit]
            ELSE NoPane,
         cells |->
            [a \in {rows[p[1]].cells[p[2]].r : p \in cellNodes} |->
                LET p == CHOOSE q \in cellNodes :
                            /\ rows[q[1]].cells[q[2]].r = a
                            /\ \A o \in cellNodes :
                                  rows[o[1]].cells[o[2]].r = a
                                  => (o[1] < q[1] \/ (o[1] = q[1] /\ o[2] <= q[2]))
                IN  parseCellNode(rows[p[1]].cells[p[2]])],
         rowHeights |->
            [r \in {AttrNumber(Some(rows[i].r)).n - 1 : i \in heightRows} |->
                AttrNumber(rows[CHOOSE i \in heightRows :
                                   AttrNumber(Some(rows[i].r)).n - 1 = r].ht).n],
         columnWidths |->
            [c \in {k - 1 : k \in UNION {AttrNumber(Some(xml.cols[i].min)).n ..
                                         AttrNumber(Some(xml.cols[i].max)).n : i \in widthCols}}
                |-> AttrNumber(Some(colWidth(c).width)).n],
         mergedCells |-> {m.ref : m \in {x \in xml.mergeCells : x.ref # <<>>}}]

\* SharedStrings.parse(sharedStrings.toXml()); a table without entries is
\* not written and the loaded workbook starts from a new one
loadedSharedStrings(t) ==
    [entries       |-> t.entries,
     stringToIndex |-> [str \in Range(t.entries) |->
                           (CHOOSE i \in DOMAIN t.entries :
                               t.entries[i] = str
                               /\ \A j \in DOMAIN t.entries : t.entries[j] = str => j <= i) - 1],
     totalCount    |-> IF Len(t.entries) = 0 THEN 0 ELSE ssTotalCount(t),
     dirty         |-> FALSE]

RtInit ==
    /\ ws = EmptyWorksheet
    /\ rtStrings = NewSharedStrings
    /\ rtLoaded = FALSE
    /\ rtLast = <<>>

A1 == <<"A", "1">>

B2 == <<"b", "2">>

RtWrites ==
    {<<A1, v>> : v \in {NullValue, NumberValue(7), StringValue(<<"h", "i">>),
                        BooleanValue(TRUE), DateValue(20240315),
                        ErrorValue(<<"#", "N", "/", "A">>)}}
    \cup {<<B2, NumberValue(-12)>>, <<B2, DateValue(20240101)>>}

RtFormulas == {<<"=", "B", "2">>, <<>>}

RtRanges == {<<"A", "1", ":", "B", "2">>}

RtWidths == {0, 24}

RtHeights == {0, 20}

RtPanes == {<<0, 0>>, <<1, 2>>, <<0, 1>>}

\* sheet.cell(address).value = val
SetCellValue(address, val) ==
    LET cells1 == cellAt(ws.cells, address)
        key    == CellKey(address)
        r      == setValue(cells1[key], val, rtStrings)
    IN  /\ ~rtLoaded
        /\ val.type = "string" => rtStrings.totalCount < MaxStringUses
        /\ ws' = [ws EXCEPT !.cells = [cells1 EXCEPT ![key] = r.data]]
        /\ rtStrings' = r.strings
        /\ rtLast' = (key :> [kind |-> "value", hadFormula |-> cells1[key].f.has]) @@ rtLast
        /\ UNCHANGED rtLoaded

\* sheet.cell(address).formula = f
SetCellFormula(address, f) ==
    LET cells1 == cellAt(ws.cells, address)
        key    == CellKey(address)
    IN  /\ ~rtLoaded
        /\ ws' = [ws EXCEPT !.cells = [cells1 EXCEPT ![key] = setFormula(cells1[key], f)]]
        /\ rtLast' = (key :> [kind |-> "formula", hadFormula |-> cells1[key].f.has]) @@ rtLast
        /\ UNCHANGED <<rtStrings, rtLoaded>>

\* sheet.mergeCells(range)
MergeCells(range) ==
    /\ ~rtLoaded
    /\ ws' = [ws EXCEPT !.mergedCells = @ \cup {range}]
    /\ UNCHANGED <<rtStrings, rtLoaded, rtLast>>

\* sheet.setColumnWidth(col, width) for a column letter; a width that is not
\* positive and a column below 0 throw
SetColumnWidth(col, width) ==
    /\ ~rtLoaded
    /\ ws' = IF width <= 0 \/ letterToCol(col) < 0 THEN ws
             ELSE [ws EXCEPT !.columnWidths = (letterToCol(col) :> width) @@ @]
    /\ UNCHANGED <<rtStrings, rtLoaded, rtLast>>

\* sheet.setRowHeight(row, height)
SetRowHeight(row, height) ==
    /\ ~rtLoaded
    /\ ws' = IF height <= 0 \/ row < 0 THEN ws
             ELSE [ws EXCEPT !.rowHeights = (row :> height) @@ @]
    /\ UNCHANGED <<rtStrings, rtLoaded, rtLast>>

\* sheet.freezePane(rowSplit, colSplit)
FreezePane(rowSplit, colSplit) ==
    /\ ~rtLoaded
    /\ ws' = IF rowSplit < 0 \/ colSplit < 0 THEN ws
             ELSE IF rowSplit = 0 /\ colSplit = 0 THEN [ws EXCEPT !.frozenPane = NoPane]
             ELSE [ws EXCEPT !.frozenPane = [set |-> TRUE, row |-> rowSplit, col |-> colSplit]]
    /\ UNCHANGED <<rtStrings, rtLoaded, rtLast>>

\* loaded = await Workbook.fromBuffer(await wb.toBuffer()); loaded.sheet(name)
SaveAndLoad ==
    /\ ~rtLoaded
    /\ ws' = parse(toXml(ws))
    /\ rtStrings' = loadedSharedStrings(rtStrings)
    /\ rtLoaded' = TRUE
    /\ UNCHANGED rtLast

\* What the API shows of a worksheet
Queried(w, strings) ==
    [values       |-> [a \in DOMAIN w.cells |-> getValue(w.cells[a], strings)],
     formulas     |-> [a \in DOMAIN w.cells |-> getFormula(w.cells[a])],
     mergedCells  |-> w.mergedCells,
     columnWidths |-> w.columnWidths,
     rowHeights   |-> w.rowHeights,
     frozenPane   |-> w.frozenPane]

(***************************************************************************)
(* Table (table.ts) and Worksheet.createTable (worksheet.ts).              *)
(***************************************************************************)
VARIABLES
    tbSheets,        \* per sheet of one workbook: its _cells and its _tables
    tbStrings,       \* the SharedStrings table of that workbook
    tbNextId,        \* the next table id the workbook hands out
    tbLast           \* the most recent table call: its sheet, its table name and the
                     \* error it threw ("" for none)

tbVars == <<tbSheets, tbStrings, tbNextId, tbLast>>

MaxTables == 2      \* tables createTable may add to the workbook
MaxTableId == 3     \* createTable is explored while the table ids stay <= MaxTableId
MaxTableRow == 7    \* setTotalRow(true) is explored while the range ends above this row

\* TOTAL_FUNCTION_NUMBERS
TOTAL_FUNCTION_NUMBERS ==
    [average |-> 101, count |-> 102, countNums |-> 103, max |-> 104, min |-> 105,
     stdDev |-> 107, sum |-> 109, var |-> 110, none |-> 0]

\* TOTAL_FUNCTION_NAMES
TOTAL_FUNCTION_NAMES ==
    [average |-> "average", count |-> "count", countNums |-> "countNums", max |-> "max",
     min |-> "min", stdDev |-> "stdDev", sum |-> "sum", var |-> "var", none |-> "none"]

\* No total function: column.totalFunction is undefined
NoFunction == ""

\* config.name && /^[A-Za-z_\\][A-Za-z0-9_.\\]*$/.test(config.name)
validTableName(name) ==
    /\ name # <<>>
    /\ IsLetter(name[1]) \/ name[1] \in {"_", "\\"}
    /\ \A i \in 2..Len(name) :
          IsLetter(name[i]) \/ IsDigit(name[i]) \/ name[i] \in {"_", ".", "\\"}

\* The uniqueness scan of createTable looking at the local sheet only
tableNameExistsLocal(sheetMap, sheet, name) ==
    \E i \in DOMAIN sheetMap[sheet].tables : sheetMap[sheet].tables[i].name = name

\* The uniqueness scan of createTable: every sheet of the workbook
tableNameExists(sheetMap, sheet, name) ==
    \E s \in DOMAIN sheetMap :
        \E i \in DOMAIN sheetMap[s].tables : sheetMap[s].tables[i].name = name

\* parseRange as the Table constructor receives it: for a single address
\* start and end are one object, so a change of end.row is a change of
\* start.row as well
tableRange(range) ==
    [start  |-> parseRange(range).start,
     end    |-> parseRange(range).end,
     shared |-> Len(Split(range, ":")) = 1]

\* this._range.end.row++
endRowIncrement(r) ==
    IF r.shared
    THEN [r EXCEPT !.start.row = @ + 1, !.end.row = @ + 1]
    ELSE [r EXCEPT !.end.row = @ + 1]

\* toRange
toRange(r) ==
    IF toAddress(r.start.row, r.start.col) = toAddress(r.end.row, r.end.col)
    THEN toAddress(r.start.row, r.start.col)
    ELSE toAddress(r.start.row, r.start.col) \o <<":">> \o toAddress(r.end.row, r.end.col)

\* normalizeRange
normalizeRange(r) ==
    [start |-> [row |-> IF r.start.row <= r.end.row THEN r.start.row ELSE r.end.row,
                col |-> IF r.start.col <= r.end.col THEN r.start.col ELSE r.end.col],
     end   |-> [row |-> IF r.start.row <= r.end.row THEN r.end.row ELSE r.start.row,
                col |-> IF r.start.col <= r.end.col THEN r.end.col ELSE r.start.col]]

\* String(value) for the values a header cell holds here
StringOfValue(val) ==
    CASE val.type = "number"  -> IntToStr(val.n)
      [] val.type = "string"  -> val.s
      [] val.type = "boolean" -> IF val.n = 1 THEN <<"t", "r", "u", "e">>
                                 ELSE <<"f", "a", "l", "s", "e">>

\* getCellIfExists(row, col)?.value: NullValue also stands for undefined
valueIfExists(cells, strings, row, col) ==
    IF toAddress(row, col) \in DOMAIN cells
    THEN getValue(cells[toAddress(row, col)], strings)
    ELSE NullValue

\* _extractColumns
extractColumns(cells, strings, r) ==
    [k \in 1..(r.end.col - r.start.col + 1) |->
        LET col   == r.start.col + k - 1
            value == valueIfExists(cells, strings, r.start.row, col)
        IN  [id       |-> k,
             name     |-> IF value.type # "null" THEN StringOfValue(value)
                          ELSE <<"C", "o", "l", "u", "m", "n">> \o NatToStr(k),
             colIndex |-> col,
             totalFunction |-> NoFunction]]

\* new Table(worksheet, config, tableId)
newTable(cells, strings, name, range, totalRow, tableId) ==
    LET r == IF totalRow THEN endRowIncrement(tableRange(range)) ELSE tableRange(range)
    IN  [name       |-> name,
         range      |-> r,
         totalRow   |-> totalRow,
         autoFilter |-> TRUE,
         id         |-> tableId,
         columns    |-> extractColumns(cells, strings, r)]

\* The error createTable throws, "" when it throws none
createTableError(sheetMap, sheet, name, range) ==
    IF tableNameExists(sheetMap, sheet, name) THEN "Table name already exists"
    ELSE IF ~validTableName(name) THEN "Invalid table name"
    ELSE IF ~parseRange(range).ok THEN "Invalid range"
    ELSE ""

\* The number of tables of the sheets in S
RECURSIVE tableCount(_, _)
tableCount(sheetMap, S) ==
    IF S = {} THEN 0
    ELSE LET s == CHOOSE x \in S : TRUE
         IN  Len(sheetMap[s].tables) + tableCount(sheetMap, S \ {s})

\* sheet.createTable({name, range, totalRow}); the table id is taken from the
\* workbook before the Table constructor parses the range
CreateTable(sheet, name, range, totalRow) ==
    LET err == createTableError(tbSheets, sheet, name, range)
    IN  /\ tbLast' = [op |-> "createTable", err |-> err, sheet |-> sheet, name |-> name]
        /\ IF err = ""
           THEN /\ tableCount(tbSheets, DOMAIN tbSheets) < MaxTables
                /\ tbNextId <= MaxTableId
                /\ tbNextId' = tbNextId + 1
                /\ tbSheets' = [tbSheets EXCEPT ![sheet].tables =
                                   Append(@, newTable(tbSheets[sheet].cells, tbStrings,
                                                      name, range, totalRow, tbNextId))]
           ELSE IF err = "Invalid range"
           THEN /\ tbNextId <= MaxTableId
                /\ tbNextId' = tbNextId + 1
                /\ UNCHANGED tbSheets
           ELSE UNCHANGED <<tbSheets, tbNextId>>
        /\ UNCHANGED tbStrings

\* The checks of setTotalFunction without the total-row check
setTotalFunctionErrorColumnOnly(t, columnName) ==
    IF \A k \in DOMAIN t.columns : t.columns[k].name # columnName THEN "Column not found"
    ELSE ""

\* The error setTotalFunction throws, "" when it throws none
setTotalFunctionError(t, columnName) ==
    IF ~t.totalRow THEN "Cannot set total function"
    ELSE IF \A k \in DOMAIN t.columns : t.columns[k].name # columnName THEN "Column not found"
    ELSE ""

\* this._columns.find((c) => c.name === columnName): the first such column,
\* 0 when there is none
findColumn(t, columnName) ==
    IF \A k \in DOMAIN t.columns : t.columns[k].name # columnName THEN 0
    ELSE CHOOSE k \in DOMAIN t.columns :
            /\ t.columns[k].name = columnName
            /\ \A j \in DOMAIN t.columns : t.columns[j].name = columnName => k <= j

\* `SUBTOTAL(${funcNum},[${column.name}])`
subtotalFormula(funcNum, columnName) ==
    <<"S", "U", "B", "T", "O", "T", "A", "L", "(">> \o NatToStr(funcNum)
    \o <<",", "[">> \o columnName \o <<"]", ")">>

\* A total-row formula written with the plain SUBTOTAL codes 1..11
writeTotalRowFormulaPlain(cells, t, column) ==
    IF ~t.totalRow \/ column.totalFunction = NoFunction \/ column.totalFunction = "none"
    THEN cells
    ELSE LET key    == toAddress(t.range.end.row, column.colIndex)
             cells1 == IF key \in DOMAIN cells THEN cells ELSE (key :> EmptyCellData) @@ cells
         IN  [cells1 EXCEPT ![key] =
                 setFormula(@, subtotalFormula(TOTAL_FUNCTION_NUMBERS[column.totalFunction] - 100,
                                               column.name))]

\* _writeTotalRowFormula: the cells of the worksheet after it
writeTotalRowFormula(cells, t, column) ==
    IF ~t.totalRow \/ column.totalFunction = NoFunction \/ column.totalFunction = "none"
    THEN cells
    ELSE LET key    == toAddress(t.range.end.row, column.colIndex)
             cells1 == IF key \in DOMAIN cells THEN cells ELSE (key :> EmptyCellData) @@ cells
         IN  [cells1 EXCEPT ![key] =
                 setFormula(@, subtotalFormula(TOTAL_FUNCTION_NUMBERS[column.totalFunction],
                                               column.name))]

\* table.setTotalFunction(columnName, fn) on table i of a sheet
SetTotalFunction(sheet, i, columnName, fn) ==
    LET t   == tbSheets[sheet].tables[i]
        err == setTotalFunctionError(t, columnName)
        k   == findColumn(t, columnName)
    IN  /\ i \in DOMAIN tbSheets[sheet].tables
        /\ tbLast' = [op |-> "setTotalFunction", err |-> err, sheet |-> sheet, name |-> t.name]
        /\ IF err # "" \/ k = 0
           THEN UNCHANGED tbSheets
           ELSE LET t1 == [t EXCEPT !.columns[k].totalFunction = fn]
                IN  tbSheets' = [tbSheets EXCEPT
                                    ![sheet].tables[i] = t1,
                                    ![sheet].cells = writeTotalRowFormula(@, t1, t1.columns[k])]
        /\ UNCHANGED <<tbStrings, tbNextId>>

\* table.setAutoFilter(enabled)
SetAutoFilter(sheet, i, enabled) ==
    /\ i \in DOMAIN tbSheets[sheet].tables
    /\ tbSheets' = [tbSheets EXCEPT ![sheet].tables[i].autoFilter = enabled]
    /\ tbLast' = [op |-> "setAutoFilter", err |-> "", sheet |-> sheet,
                  name |-> tbSheets[sheet].tables[i].name]
    /\ UNCHANGED <<tbStrings, tbNextId>>

\* setTotalRow: the table after it
setTotalRow(t, enabled) ==
    IF t.totalRow = enabled THEN t
    ELSE IF enabled THEN [t EXCEPT !.totalRow = TRUE, !.range = endRowIncrement(@)]
    ELSE [t EXCEPT !.totalRow = FALSE,
                   !.columns = [k \in DOMAIN t.columns |->
                                   [t.columns[k] EXCEPT !.totalFunction = NoFunction]]]

\* table.setTotalRow(enabled)
SetTotalRow(sheet, i, enabled) ==
    /\ i \in DOMAIN tbSheets[sheet].tables
    /\ (enabled /\ ~tbSheets[sheet].tables[i].totalRow)
          => tbSheets[sheet].tables[i].range.end.row < MaxTableRow
    /\ tbSheets' = [tbSheets EXCEPT ![sheet].tables[i] = setTotalRow(@, enabled)]
    /\ tbLast' = [op |-> "setTotalRow", err |-> "", sheet |-> sheet,
                  name |-> tbSheets[sheet].tables[i].name]
    /\ UNCHANGED <<tbStrings, tbNextId>>

\* _getAutoFilterRange
getAutoFilterRange(t) ==
    toAddress(t.range.start.row, t.range.start.col) \o <<":">>
    \o toAddress(IF t.totalRow THEN t.range.end.row - 1 ELSE t.range.end.row, t.range.end.col)

\* Table.toXml: the attributes of the table element that depend on the
\* range and the columns
tableXml(t) ==
    [ref        |-> toRange(t.range),
     autoFilter |-> IF t.autoFilter THEN Some(getAutoFilterRange(t)) ELSE None,
     totalsRowCount |-> IF t.totalRow THEN Some(<<"1">>) ELSE None,
     totalsRowShown |-> IF t.totalRow THEN None ELSE Some(<<"0">>),
     tableColumns |->
        [k \in DOMAIN t.columns |->
            [id   |-> NatToStr(t.columns[k].id),
             name |-> t.columns[k].name,
             totalsRowFunction |->
                IF t.totalRow /\ t.columns[k].totalFunction \notin {NoFunction, "none"}
                THEN TOTAL_FUNCTION_NAMES[t.columns[k].totalFunction] ELSE ""]]]

\* The cells and the shared strings after sheet.cell(w[1]).value = w[2] for
\* every w of writes in turn
RECURSIVE writeCells(_, _, _)
writeCells(cells, strings, writes) ==
    IF writes = <<>> THEN [cells |-> cells, strings |-> strings]
    ELSE LET key    == CellKey(Head(writes)[1])
             cells1 == cellAt(cells, Head(writes)[1])
             r      == setValue(cells1[key], Head(writes)[2], strings)
         IN  writeCells([cells1 EXCEPT ![key] = r.data], r.strings, Tail(writes))

\* The header row written to the first sheet: B1 is left empty
TbHeaders ==
    <<<<A1, StringValue(<<"N", "a", "m", "e">>)>>,
      <<<<"C", "1">>, StringValue(<<"S", "a", "l", "e", "s">>)>>,
      <<<<"D", "1">>, NumberValue(5)>>>>

TbSheetNames == {"S1", "S2"}

\* A workbook of two sheets, the first with a header row
TbInit ==
    /\ tbSheets = [s \in TbSheetNames |->
                      [cells  |-> IF s = "S1"
                                  THEN writeCells(<<>>, NewSharedStrings, TbHeaders).cells
                                  ELSE <<>>,
                       tables |-> <<>>]]
    /\ tbStrings = writeCells(<<>>, NewSharedStrings, TbHeaders).strings
    /\ tbNextId = 1
    /\ tbLast = [op |-> "create", err |-> "", sheet |-> "", name |-> <<>>]

(***************************************************************************)
(* Reading cells and ranges (worksheet.ts, range.ts).                      *)
(***************************************************************************)
VARIABLES
    rdLast           \* the most recent read of the worksheet ws: the call, what it
                     \* returned and the cell map it found

rdVars == <<rdLast>>

NoRead == [op |-> "none", arg |-> <<>>, found |-> FALSE, values |-> <<>>, before |-> <<>>]

\* cell(row, col): the cell map with the cell created when it is missing
cellAtRowCol(cells, row, col) ==
    IF toAddress(row, col) \in DOMAIN cells THEN cells
    ELSE (toAddress(row, col) :> EmptyCellData) @@ cells

\* A lookup that creates the missing cell, as cell(row, col) does
getCellIfExistsCreating(cells, row, col) ==
    [cells |-> cellAtRowCol(cells, row, col), found |-> TRUE]

\* getCellIfExists(row, col): the cell map after the call and whether a cell
\* was returned
getCellIfExists(cells, row, col) ==
    [cells |-> cells, found |-> toAddress(row, col) \in DOMAIN cells]

\* sheet.range(rangeStr): new Range(this, parseRange(rangeStr))
rangeOf(rangeStr) == normalizeRange(parseRange(rangeStr))

\* The (row, col) pairs of a range, row by row
rangeCoords(r) ==
    LET nc == r.end.col - r.start.col + 1
        nr == r.end.row - r.start.row + 1
    IN  [k \in 1..(nr * nc) |->
            <<r.start.row + ((k - 1) \div nc), r.start.col + ((k - 1) % nc)>>]

\* The loop of a range read over the cells at coords: with createMissing
\* every cell is fetched with cell(r, c), without it with
\* getCellIfExists(r, c) and a missing cell reads as null
RECURSIVE readCells(_, _, _, _)
readCells(cells, strings, coords, createMissing) ==
    IF coords = <<>> THEN [cells |-> cells, values |-> <<>>]
    ELSE LET row  == Head(coords)[1]
             col  == Head(coords)[2]
             got  == IF createMissing
                     THEN [cells |-> cellAtRowCol(cells, row, col), found |-> TRUE]
                     ELSE getCellIfExists(cells, row, col)
             v    == IF got.found THEN getValue(got.cells[toAddress(row, col)], strings)
                     ELSE NullValue
             rest == readCells(got.cells, strings, Tail(coords), createMissing)
         IN  [cells |-> rest.cells, values |-> <<v>> \o rest.values]

\* The flat list of values as the array of the rows of the range
rowsOf(r, flat) ==
    LET nc == r.end.col - r.start.col + 1
    IN  [i \in 1..(r.end.row - r.start.row + 1) |-> SubSeq(flat, (i - 1) * nc + 1, i * nc)]

\* get values(): every cell of the range is fetched with worksheet.cell
rangeValues(cells, strings, r) ==
    [cells  |-> readCells(cells, strings, rangeCoords(r), TRUE).cells,
     values |-> rowsOf(r, readCells(cells, strings, rangeCoords(r), TRUE).values)]

\* getValues({createMissing})
getValues(cells, strings, r, createMissing) ==
    [cells  |-> readCells(cells, strings, rangeCoords(r), createMissing).cells,
     values |-> rowsOf(r, readCells(cells, strings, rangeCoords(r), createMissing).values)]

RdInit == rdLast = NoRead

\* sheet.cell(address)
CellAt(address) ==
    /\ ws' = [ws EXCEPT !.cells = cellAt(@, address)]
    /\ rdLast' = NoRead
    /\ UNCHANGED <<rtStrings, rtLoaded, rtLast>>

\* sheet.getCellIfExists(address)
GetCellIfExists(address) ==
    LET a   == parseAddress(address)
        got == getCellIfExists(ws.cells, a.row, a.col)
    IN  /\ ws' = [ws EXCEPT !.cells = got.cells]
        /\ rdLast' = [op |-> "getCellIfExists", arg |-> address, found |-> got.found,
                      values |-> <<>>, before |-> ws.cells]
        /\ UNCHANGED <<rtStrings, rtLoaded, rtLast>>

\* sheet.range(rangeStr).values
RangeValues(rangeStr) ==
    LET got == rangeValues(ws.cells, rtStrings, rangeOf(rangeStr))
    IN  /\ ws' = [ws EXCEPT !.cells = got.cells]
        /\ rdLast' = [op |-> "values", arg |-> rangeStr, found |-> TRUE,
                      values |-> got.values, before |-> ws.cells]
        /\ UNCHANGED <<rtStrings, rtLoaded, rtLast>>

\* sheet.range(rangeStr).getValues({createMissing: false})
GetValues(rangeStr) ==
    LET got == getValues(ws.cells, rtStrings, rangeOf(rangeStr), FALSE)
    IN  /\ ws' = [ws EXCEPT !.cells = got.cells]
        /\ rdLast' = [op |-> "getValues", arg |-> rangeStr, found |-> TRUE,
                      values |-> got.values, before |-> ws.cells]
        /\ UNCHANGED <<rtStrings, rtLoaded, rtLast>>

(***************************************************************************)
(* A worksheet parsed from an existing part and saved again                *)
(* (worksheet.ts, parse / toXml / _buildPreservedWorksheet).  A child of   *)
(* the worksheet element is [tag, text, xml]: text is the content of an    *)
(* element the model does not read, xml the content of one it owns.        *)
(***************************************************************************)
VARIABLES
    px,              \* the parsed Worksheet: its model state and its dirty flags
    pxChildren,      \* the children of the worksheet element of _xmlNodes
    pxOriginal,      \* those children as the part had them when it was parsed
    pxSaved          \* whether toXml has run since the part was parsed

pxVars == <<px, pxChildren, pxOriginal, pxSaved>>

EmptyXml == toXml(EmptyWorksheet)

\* An element the model does not read
OtherNode(tag, text) == [tag |-> tag, text |-> text, xml |-> EmptyXml]

\* A node a _build...Node function may return: isNull stands for null
NullNode == [isNull |-> TRUE, node |-> OtherNode("", "")]

\* _buildSheetViewsNode
buildSheetViewsNode(w) ==
    IF ~w.frozenPane.set THEN NullNode
    ELSE [isNull |-> FALSE,
          node   |-> [tag |-> "sheetViews", text |-> "",
                      xml |-> [EmptyXml EXCEPT !.pane = toXml(w).pane]]]

\* _buildColsNode
buildColsNode(w) ==
    IF DOMAIN w.columnWidths = {} THEN NullNode
    ELSE [isNull |-> FALSE,
          node   |-> [tag |-> "cols", text |-> "",
                      xml |-> [EmptyXml EXCEPT !.cols = toXml(w).cols]]]

\* _buildSheetDataNode as a child of the worksheet element
buildSheetData(w) ==
    [isNull |-> FALSE,
     node   |-> [tag |-> "sheetData", text |-> "",
                 xml |-> [EmptyXml EXCEPT !.sheetData = buildSheetDataNode(w)]]]

\* _buildMergeCellsNode
buildMergeCellsNode(w) ==
    IF w.mergedCells = {} THEN NullNode
    ELSE [isNull |-> FALSE,
          node   |-> [tag |-> "mergeCells", text |-> "",
                      xml |-> [EmptyXml EXCEPT !.mergeCells = toXml(w).mergeCells]]]

\* _buildTablePartsNode of a worksheet without tables
buildTablePartsNode(w) == NullNode

\* children.findIndex((child) => tag in child), 0 when there is none
childIndex(children, tag) ==
    IF \A i \in DOMAIN children : children[i].tag # tag THEN 0
    ELSE CHOOSE i \in DOMAIN children :
            /\ children[i].tag = tag
            /\ \A j \in DOMAIN children : children[j].tag = tag => i <= j

\* An upsertChild whose removal drops the element and all that follow it
upsertChildTruncating(children, tag, n) ==
    LET existingIndex == childIndex(children, tag)
    IN  IF ~n.isNull
        THEN (IF existingIndex > 0 THEN [children EXCEPT ![existingIndex] = n.node]
              ELSE Append(children, n.node))
        ELSE IF existingIndex > 0 THEN SubSeq(children, 1, existingIndex - 1)
        ELSE children

\* upsertChild of _buildPreservedWorksheet
upsertChild(children, tag, n) ==
    LET existingIndex == childIndex(children, tag)
    IN  IF ~n.isNull
        THEN (IF existingIndex > 0 THEN [children EXCEPT ![existingIndex] = n.node]
              ELSE Append(children, n.node))
        ELSE IF existingIndex > 0 THEN RemoveAt(children, existingIndex)
        ELSE children

\* _buildPreservedWorksheet: the children of the worksheet element after it
buildPreservedWorksheet(children, p) ==
    LET c1 == IF p.sheetViewsDirty
              THEN upsertChild(children, "sheetViews", buildSheetViewsNode(p.w)) ELSE children
        c2 == IF p.colsDirty THEN upsertChild(c1, "cols", buildColsNode(p.w)) ELSE c1
        c3 == upsertChild(c2, "sheetData", buildSheetData(p.w))
        c4 == upsertChild(c3, "mergeCells", buildMergeCellsNode(p.w))
    IN  IF p.tablePartsDirty THEN upsertChild(c4, "tableParts", buildTablePartsNode(p.w))
        ELSE c4

\* What parse reads of the children of a worksheet element
childrenXml(children) ==
    LET part(tag) == children[childIndex(children, tag)].xml
    IN  [pane       |-> IF childIndex(children, "sheetViews") > 0
                        THEN part("sheetViews").pane ELSE EmptyXml.pane,
         cols       |-> IF childIndex(children, "cols") > 0
                        THEN part("cols").cols ELSE EmptyXml.cols,
         sheetData  |-> IF childIndex(children, "sheetData") > 0
                        THEN part("sheetData").sheetData ELSE EmptyXml.sheetData,
         mergeCells |-> IF childIndex(children, "mergeCells") > 0
                        THEN part("mergeCells").mergeCells ELSE EmptyXml.mergeCells]

\* worksheet.parse(xml) on a new Worksheet
parsedWorksheet(children) ==
    [w |-> parse(childrenXml(children)),
     sheetViewsDirty |-> FALSE, colsDirty |-> FALSE, tablePartsDirty |-> FALSE]

\* The worksheet that was saved as the first existing part
FullSheet ==
    [EmptyWorksheet EXCEPT
        !.cells        = writeCells(<<>>, NewSharedStrings, <<<<A1, NumberValue(7)>>>>).cells,
        !.mergedCells  = {<<"A", "1", ":", "B", "2">>},
        !.columnWidths = (1 :> 24),
        !.frozenPane   = [set |-> TRUE, row |-> 1, col |-> 0]]

\* The worksheet parts the parsed worksheet may come from: one with every
\* element the model owns among elements it does not read, one with
\* sheetData only
ExistingParts ==
    {<<OtherNode("sheetPr", "p"), OtherNode("dimension", "A1:B2"),
       buildSheetViewsNode(FullSheet).node, OtherNode("sheetFormatPr", "f"),
       buildColsNode(FullSheet).node, buildSheetData(FullSheet).node,
       OtherNode("conditionalFormatting", "c"), buildMergeCellsNode(FullSheet).node,
       OtherNode("pageMargins", "m"), OtherNode("tableParts", "t"),
       OtherNode("extLst", "e")>>,
     <<OtherNode("dimension", "A1"), buildSheetData(EmptyWorksheet).node,
       OtherNode("conditionalFormatting", "c"), OtherNode("dataValidations", "d"),
       OtherNode("pageMargins", "m"), OtherNode("drawing", "g")>>}

PxInit ==
    /\ pxOriginal = CHOOSE d \in ExistingParts : Len(d) > 6
    /\ pxChildren = pxOriginal
    /\ px = parsedWorksheet(pxOriginal)
    /\ pxSaved = FALSE

\* A worksheet parsed from any of the existing parts
PxInitAny ==
    /\ pxOriginal \in ExistingParts
    /\ pxChildren = pxOriginal
    /\ px = parsedWorksheet(pxOriginal)
    /\ pxSaved = FALSE

\* sheet.freezePane(rowSplit, colSplit) on the parsed worksheet
PxFreezePane(rowSplit, colSplit) ==
    /\ px' = IF rowSplit < 0 \/ colSplit < 0 THEN px
             ELSE [px EXCEPT
                      !.w.frozenPane = IF rowSplit = 0 /\ colSplit = 0 THEN NoPane
                                       ELSE [set |-> TRUE, row |-> rowSplit, col |-> colSplit],
                      !.sheetViewsDirty = TRUE]
    /\ UNCHANGED <<pxChildren, pxOriginal, pxSaved>>

\* sheet.setColumnWidth(col, width) on the parsed worksheet
PxSetColumnWidth(col, width) ==
    /\ px' = IF width <= 0 \/ letterToCol(col) < 0 THEN px
             ELSE [px EXCEPT !.w.columnWidths = (letterToCol(col) :> width) @@ @,
                             !.colsDirty = TRUE]
    /\ UNCHANGED <<pxChildren, pxOriginal, pxSaved>>

\* sheet.mergeCells(range) on the parsed worksheet
PxMergeCells(range) ==
    /\ px' = [px EXCEPT !.w.mergedCells = @ \cup {range}]
    /\ UNCHANGED <<pxChildren, pxOriginal, pxSaved>>

\* sheet.unmergeCells(range) on the parsed worksheet
PxUnmergeCells(range) ==
    /\ px' = [px EXCEPT !.w.mergedCells = @ \ {range}]
    /\ UNCHANGED <<pxChildren, pxOriginal, pxSaved>>

\* sheet.cell(address).value = n on the parsed worksheet
PxSetCellNumber(address, n) ==
    /\ px' = [px EXCEPT !.w.cells =
                 writeCells(@, NewSharedStrings, <<<<address, NumberValue(n)>>>>).cells]
    /\ UNCHANGED <<pxChildren, pxOriginal, pxSaved>>

\* sheet.setTableRelIds(null) on the parsed worksheet
PxSetTableRelIds ==
    /\ px' = [px EXCEPT !.tablePartsDirty = TRUE]
    /\ UNCHANGED <<pxChildren, pxOriginal, pxSaved>>

\* sheet.toXml(): the preserved worksheet element is changed in place and
\* written out
PxToXml ==
    /\ pxChildren' = buildPreservedWorksheet(pxChildren, px)
    /\ pxSaved' = TRUE
    /\ UNCHANGED <<px, pxOriginal>>

(***************************************************************************)
(* The date conversions of Cell (_excelDateToJs, _jsDateToExcel).  A time  *)
(* is Date.getTime() - EXCEL_EPOCH.getTime() counted in seconds; a serial  *)
(* number is scaled by the seconds of a day, so that serial 1.5 is         *)
(* 3 * HalfDay: both conversions are then exact on integers.               *)
(***************************************************************************)
VARIABLES dtLast     \* the last conversion: its input, its result, and the result converted back

dtVars == <<dtLast>>

MaxSerialDays == 70  \* serial numbers and dates explored, in days from the epoch

\* MS_PER_DAY, in seconds
SEC_PER_DAY == 24 * 60 * 60

HalfDay == SEC_PER_DAY \div 2

\* _excelDateToJs(serial)
excelDateToJs(serial) ==
    LET adjusted == IF serial > 60 * SEC_PER_DAY THEN serial - SEC_PER_DAY ELSE serial
    IN  adjusted - SEC_PER_DAY

\* _jsDateToExcel(date)
jsDateToExcel(date) ==
    LET serial == date + SEC_PER_DAY
    IN  IF serial > 60 * SEC_PER_DAY THEN serial + SEC_PER_DAY ELSE serial

\* PivotCache._excelSerialToDate(serial), the serial number scaled by the
\* seconds of a day: its epoch, 1899-12-31, is one day after 1899-12-30
excelSerialToDate(serial) ==
    LET adjusted == IF serial >= 60 * SEC_PER_DAY THEN serial - SEC_PER_DAY ELSE serial
    IN  SEC_PER_DAY + adjusted

NoConversion == [op |-> "none", input |-> 0, result |-> 0, back |-> 0, pivot |-> 0]

DtInit == dtLast = NoConversion

\* cell._jsDateToExcel(cell._excelDateToJs(serial))
SerialToDateAndBack(serial) ==
    dtLast' = [op     |-> "excelDateToJs",
               input  |-> serial,
               result |-> excelDateToJs(serial),
               back   |-> jsDateToExcel(excelDateToJs(serial)),
               pivot  |-> 0]

\* cell._excelDateToJs(cell._jsDateToExcel(date))
DateToSerialAndBack(date) ==
    dtLast' = [op     |-> "jsDateToExcel",
               input  |-> date,
               result |-> jsDateToExcel(date),
               back   |-> excelDateToJs(jsDateToExcel(date)),
               pivot  |-> 0]

(***************************************************************************)
(* Calls of the address codec (utils/address.ts).                          *)
(***************************************************************************)
VARIABLES cdLast     \* the last call of the codec: its input and what it returned

cdVars == <<cdLast>>

MaxCol == 750        \* columns explored: one, two and three letters (702 is AAA)

NoCodecCall ==
    [op |-> "none", col |-> 0, letters |-> <<>>, address |-> <<>>,
     ok |-> TRUE, row |-> 0, back |-> 0, lettersBack |-> <<>>]

CdInit == cdLast = NoCodecCall

\* letterToCol(colToLetter(col))
ColToLetterAndBack(col) ==
    cdLast' = [NoCodecCall EXCEPT !.op = "colToLetter", !.col = col,
                                  !.letters = colToLetter(col),
                                  !.back = letterToCol(colToLetter(col))]

\* colToLetter(letterToCol(letters))
LetterToColAndBack(letters) ==
    cdLast' = [NoCodecCall EXCEPT !.op = "letterToCol", !.letters = letters,
                                  !.col = letterToCol(letters),
                                  !.lettersBack = colToLetter(letterToCol(letters))]

\* parseAddress(address)
ParseAddress(address) ==
    LET a == parseAddress(address)
    IN  cdLast' = [NoCodecCall EXCEPT !.op = "parseAddress", !.address = address,
                                      !.ok = a.ok, !.row = a.row, !.col = a.col]

\* The Date of a serial number in a cell (Cell._excelDateToJs) and in a pivot
\* cache field (PivotCache._excelSerialToDate)
SerialToDate(serial) ==
    dtLast' = [op     |-> "serialToDate",
               input  |-> serial,
               result |-> excelDateToJs(serial),
               back   |-> 0,
               pivot  |-> excelSerialToDate(serial)]

(***************************************************************************)
(* PivotCache.buildFromData (workbook.ts).  A Date is its time in seconds  *)
(* from 1899-12-30, a number met in a date field a serial number of whole  *)
(* days.                                                                   *)
(***************************************************************************)
VARIABLES
    pcData,          \* the rows of the source data, as _extractSourceData returns them
    pcFields,        \* PivotCache._fields
    pcRecords        \* PivotCache._records: the rows the fields were built from

pcVars == <<pcData, pcFields, pcRecords>>

MaxRecords == 3      \* rows of source data

NoBound == [has |-> FALSE, v |-> 0]

Defined(v) == [has |-> TRUE, v |-> v]

\* The field buildFromData starts from for one header
newField(name, index) ==
    [name |-> name, index |-> index, isNumeric |-> TRUE, isDate |-> FALSE,
     hasBoolean |-> FALSE, hasBlank |-> FALSE, sharedItems |-> <<>>,
     minValue |-> NoBound, maxValue |-> NoBound,
     minDate |-> NoBound, maxDate |-> NoBound]

lower(bound, v) == IF ~bound.has \/ v < bound.v THEN Defined(v) ELSE bound

upper(bound, v) == IF ~bound.has \/ v > bound.v THEN Defined(v) ELSE bound

\* The analysis of a value that is not blank
analyzeNonBlank(field, value) ==
    IF value.type = "string"
    THEN [field EXCEPT !.isNumeric = FALSE,
                       !.sharedItems = IF value.s \in Range(@) THEN @ ELSE Append(@, value.s)]
    ELSE IF value.type = "number"
    THEN (IF field.isDate
          THEN [field EXCEPT !.minDate = lower(@, excelSerialToDate(value.n * SEC_PER_DAY)),
                             !.maxDate = upper(@, excelSerialToDate(value.n * SEC_PER_DAY))]
          ELSE [field EXCEPT !.minValue = lower(@, value.n), !.maxValue = upper(@, value.n)])
    ELSE IF value.type = "date"
    THEN [field EXCEPT !.isDate = TRUE, !.isNumeric = FALSE,
                       !.minDate = lower(@, value.n * SEC_PER_DAY),
                       !.maxDate = upper(@, value.n * SEC_PER_DAY)]
    ELSE IF value.type = "boolean"
    THEN [field EXCEPT !.isNumeric = FALSE, !.hasBoolean = TRUE]
    ELSE field

\* An analysis in which a blank value also makes the field non-numeric
analyzeValueBlankAsText(field, value) ==
    IF value.type = "null" THEN [field EXCEPT !.hasBlank = TRUE, !.isNumeric = FALSE]
    ELSE analyzeNonBlank(field, value)

\* The body of buildFromData's inner loop: one value of one field
analyzeValue(field, value) ==
    IF value.type = "null" THEN [field EXCEPT !.hasBlank = TRUE]
    ELSE analyzeNonBlank(field, value)

\* for (colIdx = 0; colIdx < row.length && colIdx < fields.length; colIdx++)
analyzeRow(fields, row) ==
    [i \in DOMAIN fields |-> IF i <= Len(row) THEN analyzeValue(fields[i], row[i])
                             ELSE fields[i]]

RECURSIVE analyzeRows(_, _)
analyzeRows(fields, data) ==
    IF data = <<>> THEN fields
    ELSE analyzeRows(analyzeRow(fields, Head(data)), Tail(data))

\* buildFromData(headers, data): the fields it leaves
buildFromData(headers, data) ==
    analyzeRows([i \in DOMAIN headers |-> newField(headers[i], i - 1)], data)

PcHeaders == <<<<"K">>, <<"V">>>>

PcInit ==
    /\ pcData = <<>>
    /\ pcFields = <<>>
    /\ pcRecords = <<>>

\* One more row of cells under the headers of the source range
PcAddRow(row) ==
    /\ Len(pcData) < MaxRecords
    /\ pcData' = Append(pcData, row)
    /\ UNCHANGED <<pcFields, pcRecords>>

\* cache.buildFromData(headers, data) on the rows of the source range
BuildFromData ==
    /\ pcFields' = buildFromData(PcHeaders, pcData)
    /\ pcRecords' = pcData
    /\ UNCHANGED pcData

(***************************************************************************)
(* Workbook.fromBuffer: a workbook loaded from an existing package.        *)
(***************************************************************************)
StylesRel(id) == [id |-> id, type |-> "styles", target |-> <<"styles.xml", 0>>]

SharedStringsRel(id) ==
    [id |-> id, type |-> "sharedStrings", target |-> <<"sharedStrings.xml", 0>>]

\* The parts of a package with the given sheet directory and relationships;
\* its sst element has no count attribute
packageFiles(defs, rels, strings) ==
    LET base == (WorkbookPart :> workbookXml(defs, rels, <<>>))
                @@ (RelsPart :> [kind |-> "rels", rels |-> rels])
                @@ (ContentTypesPart :> contentTypesXml(defs, rels, <<>>, <<>>, strings))
                @@ (RootRelsPart :> [kind |-> "rels", target |-> WorkbookPart])
                @@ (StylesPart :> [kind |-> "styles"])
                @@ [p \in declaredSheetParts(defs, rels) |-> worksheetXml(NewWorksheet)]
    IN  IF strings = {} THEN base
        ELSE (SharedStringsPart :>
                 [kind |-> "sharedStrings", strings |-> strings, countAttr |-> FALSE]) @@ base

\* A package whose only worksheet part is not named after its sheet id
RenumberedPackage ==
    [defs    |-> <<[name |-> <<"P">>, sheetId |-> 1, rId |-> 1]>>,
     rels    |-> <<[id |-> 1, type |-> "worksheet", target |-> SheetTarget(2)], StylesRel(2)>>,
     strings |-> {}]

\* A package with a shared string table
StringsPackage ==
    [defs    |-> <<[name |-> <<"P">>, sheetId |-> 1, rId |-> 1]>>,
     rels    |-> <<[id |-> 1, type |-> "worksheet", target |-> SheetTarget(1)],
                   StylesRel(2), SharedStringsRel(3)>>,
     strings |-> {1}]

LoadedPackages == {RenumberedPackage, StringsPackage}

\* Workbook.fromBuffer(data): _parseWorkbook, _parseRelationships,
\* SharedStrings.parse, Styles.parse
fromBuffer(pkg) ==
    /\ files = packageFiles(pkg.defs, pkg.rels, pkg.strings)
    /\ sheetDefs = pkg.defs
    /\ relationships = pkg.rels
    /\ wbStrings = pkg.strings
    /\ wbSsDirty = FALSE
    /\ sheets = <<>>
    /\ wbDirty = FALSE
    /\ pivotTables = <<>>
    /\ pivotCaches = <<>>
    /\ nextCacheId = 0
    /\ last = NoCall
    /\ everSheetIds = {}
    /\ everRIds = {}

\* A workbook made by Workbook.create() or loaded from one of the packages
WbInitAny == WbInit \/ \E pkg \in LoadedPackages : fromBuffer(pkg)

(***************************************************************************)
(* Specifications.                                                         *)
(***************************************************************************)
vars == <<wbVars, ssVars, stVars, rtVars, tbVars, rdVars, pxVars, dtVars, cdVars, pcVars>>

\* What the steps of one component leave alone
exceptWb == <<ssVars, stVars, rtVars, tbVars, rdVars, pxVars, dtVars, cdVars, pcVars>>

exceptSs == <<wbVars, stVars, rtVars, tbVars, rdVars, pxVars, dtVars, cdVars, pcVars>>

exceptSt == <<wbVars, ssVars, rtVars, tbVars, rdVars, pxVars, dtVars, cdVars, pcVars>>

exceptRt == <<wbVars, ssVars, stVars, tbVars, rdVars, pxVars, dtVars, cdVars, pcVars>>

exceptTb == <<wbVars, ssVars, stVars, rtVars, rdVars, pxVars, dtVars, cdVars, pcVars>>

exceptRtRd == <<wbVars, ssVars, stVars, tbVars, pxVars, dtVars, cdVars, pcVars>>

exceptPx == <<wbVars, ssVars, stVars, rtVars, tbVars, rdVars, dtVars, cdVars, pcVars>>

exceptDt == <<wbVars, ssVars, stVars, rtVars, tbVars, rdVars, pxVars, cdVars, pcVars>>

exceptCd == <<wbVars, ssVars, stVars, rtVars, tbVars, rdVars, pxVars, dtVars, pcVars>>

exceptPc == <<wbVars, ssVars, stVars, rtVars, tbVars, rdVars, pxVars, dtVars, cdVars>>

Init == WbInit /\ SsInit /\ StInit /\ RtInit /\ TbInit /\ RdInit /\ PxInit /\ DtInit /\ CdInit /\ PcInit

\* The sheet-directory operations of a workbook
DirNext ==
    \/ \E n \in SheetNames, i \in Indexes : AddSheet(n, i) /\ UNCHANGED exceptWb
    \/ \E n \in SheetNames : DeleteSheetByName(n) /\ UNCHANGED exceptWb
    \/ \E i \in DeleteIndexes : DeleteSheetByIndex(i) /\ UNCHANGED exceptWb
    \/ \E o \in SheetNames, n \in SheetNames :
          RenameSheet(o, n) /\ UNCHANGED exceptWb
    \/ \E o \in SheetNames, n \in SheetNames :
          CopySheet(o, n) /\ UNCHANGED exceptWb
    \/ \E s \in SourceRefs, t \in TargetRefs :
          CreatePivotTable("PT", s, t) /\ UNCHANGED exceptWb

\* Sheet, cell and pivot-table operations of a workbook interleaved with saves
SaveNext ==
    \/ \E n \in SaveNames : AddSheet(n, -1) /\ UNCHANGED exceptWb
    \/ \E n \in SaveNames : DeleteSheetByName(n) /\ UNCHANGED exceptWb
    \/ \E n \in CellSheets, a \in CellAddrs, k \in SharedStringValues :
          SetCellString(n, a, k) /\ UNCHANGED exceptWb
    \/ \E s \in SaveSourceRefs, t \in SaveTargetRefs :
          CreatePivotTable("PT", s, t) /\ UNCHANGED exceptWb
    \/ ToBuffer /\ UNCHANGED exceptWb

\* addString calls on one shared string table
StringsNext ==
    \E str \in SsStrings : AddString(str) /\ UNCHANGED exceptSs

\* createStyle and number-format lookups on one style table
StylesNext ==
    \/ \E style \in StyleArgs : CreateStyle(style) /\ UNCHANGED exceptSt
    \/ \E format \in NumFmtCodes :
          GetOrCreateNumFmtId(format) /\ UNCHANGED exceptSt

\* A worksheet built through the API, then saved and loaded
RoundTripNext ==
    \/ \E w \in RtWrites : SetCellValue(w[1], w[2]) /\ UNCHANGED exceptRt
    \/ \E f \in RtFormulas : SetCellFormula(A1, f) /\ UNCHANGED exceptRt
    \/ \E r \in RtRanges : MergeCells(r) /\ UNCHANGED exceptRt
    \/ \E x \in RtWidths : SetColumnWidth(<<"B">>, x) /\ UNCHANGED exceptRt
    \/ \E h \in RtHeights : SetRowHeight(1, h) /\ UNCHANGED exceptRt
    \/ \E p \in RtPanes : FreezePane(p[1], p[2]) /\ UNCHANGED exceptRt
    \/ SaveAndLoad /\ UNCHANGED exceptRt

Spec == Init /\ [][DirNext]_vars

SpecSave == Init /\ [][SaveNext]_vars

SpecStrings == Init /\ [][StringsNext]_vars

InitStyles == WbInit /\ SsInit /\ StInitAny /\ RtInit /\ TbInit /\ RdInit /\ PxInit /\ DtInit /\ CdInit /\ PcInit

SpecStyles == InitStyles /\ [][StylesNext]_vars

SpecRoundTrip == Init /\ [][RoundTripNext]_vars

TableNames ==
    {<<"T", "1">>, <<"_", "t", ".", "2">>, <<"a", "\\", "b">>, <<"\\", "c">>,
     <<>>, <<"1", "T">>, <<"a", " ", "b">>, <<".", "a">>}

TableRanges == {<<"A", "1", ":", "D", "6">>, <<"A", ":", "1">>}

\* createTable calls on the two sheets of one workbook
TablesNext ==
    \E s \in TbSheetNames, n \in TableNames, r \in TableRanges, tr \in BOOLEAN :
        CreateTable(s, n, r, tr) /\ UNCHANGED exceptTb

SpecTables == Init /\ [][TablesNext]_vars

TotalFunctions ==
    {"average", "count", "countNums", "max", "min", "stdDev", "sum", "var", "none"}

TotalColumns == {<<"S", "a", "l", "e", "s">>, <<"N", "o", "p", "e">>}

TotalRanges == {<<"A", "1", ":", "D", "6">>, <<"A", "1">>}

\* One table of the first sheet and the calls on it
TotalsNext ==
    \/ \E r \in TotalRanges, tr \in BOOLEAN :
          /\ tableCount(tbSheets, DOMAIN tbSheets) = 0
          /\ CreateTable("S1", <<"T", "1">>, r, tr)
          /\ UNCHANGED exceptTb
    \/ \E c \in TotalColumns, fn \in TotalFunctions :
          SetTotalFunction("S1", 1, c, fn) /\ UNCHANGED exceptTb
    \/ \E e \in BOOLEAN : SetTotalRow("S1", 1, e) /\ UNCHANGED exceptTb
    \/ \E e \in BOOLEAN : SetAutoFilter("S1", 1, e) /\ UNCHANGED exceptTb

SpecTotals == Init /\ [][TotalsNext]_vars

RdWrites ==
    {<<A1, NumberValue(7)>>, <<A1, NullValue>>, <<B2, StringValue(<<"h", "i">>)>>}

RdAddrs == {A1, B2, <<"C", "3">>}

RdRanges == {<<"A", "1", ":", "B", "2">>, <<"B", "2", ":", "B", "1">>}

\* Writes to a worksheet and reads of its cells and ranges
ReadNext ==
    \/ \E w \in RdWrites :
          SetCellValue(w[1], w[2]) /\ rdLast' = NoRead /\ UNCHANGED exceptRtRd
    \/ \E a \in RdAddrs : CellAt(a) /\ UNCHANGED exceptRtRd
    \/ \E a \in RdAddrs : GetCellIfExists(a) /\ UNCHANGED exceptRtRd
    \/ \E r \in RdRanges : RangeValues(r) /\ UNCHANGED exceptRtRd
    \/ \E r \in RdRanges : GetValues(r) /\ UNCHANGED exceptRtRd

SpecRead == Init /\ [][ReadNext]_vars

PxPanes == {<<0, 0>>, <<2, 1>>}

PxRanges == {<<"A", "1", ":", "B", "2">>, <<"C", "1", ":", "D", "1">>}

\* Edits of a worksheet parsed from an existing part, and saves of it
PreservedNext ==
    \/ \E p \in PxPanes : PxFreezePane(p[1], p[2]) /\ UNCHANGED exceptPx
    \/ \E x \in RtWidths : PxSetColumnWidth(<<"A">>, x) /\ UNCHANGED exceptPx
    \/ \E r \in PxRanges : PxMergeCells(r) /\ UNCHANGED exceptPx
    \/ \E r \in PxRanges : PxUnmergeCells(r) /\ UNCHANGED exceptPx
    \/ PxSetCellNumber(B2, 9) /\ UNCHANGED exceptPx
    \/ PxSetTableRelIds /\ UNCHANGED exceptPx
    \/ PxToXml /\ UNCHANGED exceptPx

InitPreserved == WbInit /\ SsInit /\ StInit /\ RtInit /\ TbInit /\ RdInit /\ PxInitAny /\ DtInit /\ CdInit /\ PcInit

SpecPreserved == InitPreserved /\ [][PreservedNext]_vars

\* Serial numbers and times at every half day from day 1 to day MaxSerialDays
DtInputs == {k * HalfDay : k \in 2..(2 * MaxSerialDays)}

\* Conversions of serial numbers and of dates, each followed by the conversion back
DatesNext ==
    \/ \E serial \in DtInputs : SerialToDateAndBack(serial) /\ UNCHANGED exceptDt
    \/ \E date \in DtInputs : DateToSerialAndBack(date) /\ UNCHANGED exceptDt
    \/ \E serial \in DtInputs : SerialToDate(serial) /\ UNCHANGED exceptDt

SpecDates == Init /\ [][DatesNext]_vars

\* Upper-case letter strings: every one of one or two letters, some of three
CdLetters ==
    {<<a>> : a \in Range(Upper)}
    \cup {<<a, b>> : a \in Range(Upper), b \in Range(Upper)}
    \cup {<<a, b, c>> : a \in {"A", "M", "Z"}, b \in {"A", "M", "Z"}, c \in {"A", "M", "Z"}}

CdChars == {"A", "b", "$", "0", "1", "9"}

\* Every string of up to three of the characters of CdChars
CdAddresses ==
    {<<>>} \cup {<<a>> : a \in CdChars}
    \cup {<<a, b>> : a \in CdChars, b \in CdChars}
    \cup {<<a, b, c>> : a \in CdChars, b \in CdChars, c \in CdChars}

\* Calls of the address codec
CodecNext ==
    \/ \E col \in 0..MaxCol : ColToLetterAndBack(col) /\ UNCHANGED exceptCd
    \/ \E letters \in CdLetters : LetterToColAndBack(letters) /\ UNCHANGED exceptCd
    \/ \E address \in CdAddresses : ParseAddress(address) /\ UNCHANGED exceptCd

SpecCodec == Init /\ [][CodecNext]_vars

\* The values of the first column of the source data
PcValues ==
    {NullValue, NumberValue(-2), NumberValue(3), StringValue(<<"a">>), StringValue(<<"b">>),
     BooleanValue(TRUE), DateValue(40)}

\* The values of its second column
PcOtherValues == {NullValue, NumberValue(70), StringValue(<<"a">>)}

\* Rows added to the source data, and caches built from it
CacheNext ==
    \/ \E v \in PcValues, w \in PcOtherValues : PcAddRow(<<v, w>>) /\ UNCHANGED exceptPc
    \/ BuildFromData /\ UNCHANGED exceptPc

SpecCache == Init /\ [][CacheNext]_vars

\* Sheet and pivot-table operations and saves of a workbook that was created
\* or loaded
PackageNext ==
    \/ \E n \in SaveNames : AddSheet(n, -1) /\ UNCHANGED exceptWb
    \/ \E n \in SaveNames : DeleteSheetByName(n) /\ UNCHANGED exceptWb
    \/ \E o \in SaveNames, n \in SaveNames : RenameSheet(o, n) /\ UNCHANGED exceptWb
    \/ CopySheet(<<"P">>, <<"Q">>) /\ UNCHANGED exceptWb
    \/ \E s \in SaveSourceRefs, t \in SaveTargetRefs :
          CreatePivotTable("PT", s, t) /\ UNCHANGED exceptWb
    \/ ToBuffer /\ UNCHANGED exceptWb

InitPackage == WbInitAny /\ SsInit /\ StInit /\ RtInit /\ TbInit /\ RdInit /\ PxInit /\ DtInit /\ CdInit /\ PcInit

SpecPackage == InitPackage /\ [][PackageNext]_vars

(***************************************************************************)
(* Properties of the workbook.                                             *)
(***************************************************************************)
\* Every sheet definition of a created workbook has its cached Worksheet
CacheCoversDirectory ==
    \A i \in DOMAIN sheetDefs : sheetDefs[i].name \in DOMAIN sheets

DeclaredPartKinds ==
    {"xl/worksheets/sheet", "xl/sharedStrings.xml", "xl/styles.xml",
     "xl/pivotCache/pivotCacheDefinition", "xl/pivotCache/pivotCacheRecords",
     "xl/pivotTables/pivotTable"}

\* C1: after toBuffer the package is mutually consistent: every part a
\* content-types Override or a workbook relationship names is in the written
\* file set, and every worksheet, shared-strings, styles, pivot-cache and
\* pivot-table part in the written file set is declared in content types.
C1_PackageConsistent ==
    last.op = "toBuffer" =>
        LET declared == files[ContentTypesPart].overrides
            targets  == {XlPath(r.target) : r \in Range(files[RelsPart].rels)}
        IN  /\ declared \subseteq DOMAIN files
            /\ targets \subseteq DOMAIN files
            /\ \A p \in DOMAIN files : p[1] \in DeclaredPartKinds => p \in declared

\* C2: every sheet id and relationship id addSheet allocates (an id of the
\* directory that no sheet had before the call) differs from every id
\* allocated earlier in the workbook's lifetime, deleted sheets' included.
C2_IdsNeverReused ==
    [][\A i \in DOMAIN sheetDefs' :
          (\A j \in DOMAIN sheetDefs : sheetDefs[j].sheetId # sheetDefs'[i].sheetId)
          => /\ sheetDefs'[i].sheetId \notin everSheetIds
             /\ sheetDefs'[i].rId \notin everRIds]_vars

\* C3: after any sequence of addSheet, deleteSheet, renameSheet, copySheet
\* and createPivotTable calls, successful or failing, no two sheets of the
\* directory have the same name.
C3_UniqueSheetNames ==
    \A i \in DOMAIN sheetDefs : \A j \in DOMAIN sheetDefs :
        sheetDefs[i].name = sheetDefs[j].name => i = j

\* addSheet was called with a name in use, among several sheets, and threw
C3_DuplicateRejected ==
    /\ last.op = "addSheet"
    /\ last.err = "Sheet already exists"
    /\ Len(sheetDefs) >= 2

\* C4: a deleteSheet call on a workbook of exactly one sheet throws and the
\* sheet is still there, so no step brings the sheet count from one or more
\* back to zero.
C4_LastSheetStays ==
    [][/\ (last'.op = "deleteSheet" /\ Len(sheetDefs) = 1)
          => (last'.err # "" /\ sheetDefs' = sheetDefs)
       /\ Len(sheetDefs) >= 1 => Len(sheetDefs') >= 1]_vars

\* deleteSheet was called on the only sheet and threw
C4_LastSheetRejected ==
    /\ last.op = "deleteSheet"
    /\ last.err = "Cannot delete the last sheet"
    /\ Len(sheetDefs) = 1

\* C5: when createPivotTable throws, the workbook is as it was before the
\* call: no sheet added, no pivot cache or pivot table registered, no cache
\* id consumed.
C5_NoPartialSuccess ==
    [][(last'.op = "createPivotTable" /\ last'.err # "")
       => UNCHANGED <<sheetDefs, relationships, pivotTables, pivotCaches, nextCacheId>>]_vars

(***************************************************************************)
(* Properties of the worksheet round trip, the shared string table and     *)
(* the style table.                                                        *)
(***************************************************************************)
\* C6: for a worksheet built only through the API, saving and loading yields
\* a worksheet in which every cell's value and formula, the merged ranges,
\* the column widths, the row heights and the frozen pane are what they were
\* before serialization.
C6_RoundTripPreserves ==
    [][(~rtLoaded /\ rtLoaded') => Queried(ws', rtStrings') = Queried(ws, rtStrings)]_vars

\* C7: on a fresh table, after n addString calls holding k distinct strings,
\* equal strings got the same index, distinct strings got distinct indices,
\* the total-usage count is n and the unique count is k.
C7_AddStringCounts ==
    /\ \A i \in DOMAIN ssCalls : \A j \in DOMAIN ssCalls :
          (ssCalls[i].str = ssCalls[j].str) <=> (ssCalls[i].index = ssCalls[j].index)
    /\ ssTotalCount(ss) = Len(ssCalls)
    /\ ssCount(ss) = Cardinality({ssCalls[i].str : i \in DOMAIN ssCalls})

\* Four calls were made, a string among them twice and two strings distinct
C7_RepeatedAndDistinct ==
    /\ Len(ssCalls) = 4
    /\ ssCalls[1].str = ssCalls[3].str
    /\ ssCalls[1].str # ssCalls[2].str
    /\ ssCalls[4].str # ssCalls[1].str

\* Two style arguments with the same set of properties and equal values
StructurallyEqual(a, b) == Range(a) = Range(b)

\* C8: two createStyle calls on one table return the same index if and only
\* if their style arguments are structurally equal.
C8_SameIndexIffEqual ==
    \A a \in styleCalls : \A b \in styleCalls :
        (a.index = b.index) <=> StructurallyEqual(a.style, b.style)

\* C9: a code that is not built-in gets an id of at least 164, every lookup
\* of a code returns the id first assigned to it, and two different custom
\* codes never share an id.
C9_CustomNumFmtIds ==
    \A a \in numFmtIds : \A b \in numFmtIds :
        /\ a[1] \notin DOMAIN BuiltinNumFmts => a[2] >= 164
        /\ a[1] = b[1] => a[2] = b[2]
        /\ a[1] # b[1] => a[2] # b[2]

\* Two custom codes were looked up, one of them again after the other
C9_TwoCustomCodes ==
    /\ Cardinality({a \in numFmtIds : a[1] \notin DOMAIN BuiltinNumFmts}) = 2
    /\ lastNumFmt.code \in CustomCodes
    /\ ~lastNumFmt.allocated

\* C10: getOrCreateNumFmtId maps each built-in code to its reserved id and
\* allocates no custom id for it.
C10_BuiltinNumFmtIds ==
    lastNumFmt.code \in {"General", "0", "0.00", "#,##0", "#,##0.00", "0%", "0.00%",
                         "mm-dd-yy", "d-mmm-yy", "@"}
    => /\ <<lastNumFmt.code, lastNumFmt.id>> \in
              {<<"General", 0>>, <<"0", 1>>, <<"0.00", 2>>, <<"#,##0", 3>>,
               <<"#,##0.00", 4>>, <<"0%", 9>>, <<"0.00%", 10>>, <<"mm-dd-yy", 14>>,
               <<"d-mmm-yy", 15>>, <<"@", 49>>}
       /\ ~lastNumFmt.allocated

\* "0.00" was looked up on a table whose createStyle had formatted with it
C10_BuiltinAfterStyle ==
    /\ lastNumFmt.code = "0.00"
    /\ lastNumFmt.id = 2
    /\ \E i \in DOMAIN styles.numFmts : styles.numFmts[i].code = "0.00"
(***************************************************************************)
(* Properties of cells.                                                    *)
(***************************************************************************)

\* C11: right after an assignment to a cell's value the cell has no formula,
\* so a cell of a worksheet under edit has a formula only if its most recent
\* assignment was a formula assignment
C11_ValueClearsFormula ==
    \A a \in DOMAIN ws.cells :
        /\ (a \in DOMAIN rtLast /\ rtLast[a].kind = "value") => ~getFormula(ws.cells[a]).has
        /\ getFormula(ws.cells[a]).has => (a \in DOMAIN rtLast /\ rtLast[a].kind = "formula")

\* A value was assigned to a cell that held a formula
C11_ValueOverFormula ==
    /\ ~rtLoaded
    /\ \E a \in DOMAIN ws.cells :
          /\ a \in DOMAIN rtLast
          /\ rtLast[a].kind = "value"
          /\ rtLast[a].hadFormula
          /\ ~getFormula(ws.cells[a]).has

(***************************************************************************)
(* Properties of tables.                                                   *)
(***************************************************************************)
TablesOf(sheetMap) ==
    {<<s, i>> : s \in DOMAIN sheetMap, i \in 1..MaxTables + 1}
    \cap UNION {{<<s, i>> : i \in DOMAIN sheetMap[s].tables} : s \in DOMAIN sheetMap}

UniqueTableNames(sheetMap) ==
    \A p \in TablesOf(sheetMap), q \in TablesOf(sheetMap) :
        sheetMap[p[1]].tables[p[2]].name = sheetMap[q[1]].tables[q[2]].name => p = q

\* C12: after any sequence of createTable calls on the sheets of one
\* workbook all table names are pairwise distinct: a createTable call with a
\* name some sheet of the workbook already uses throws "Table name already
\* exists" and adds no table.
C12_UniqueTableNames ==
    [][/\ (/\ tbLast'.op = "createTable"
           /\ \E p \in TablesOf(tbSheets) : tbSheets[p[1]].tables[p[2]].name = tbLast'.name)
          => (tbLast'.err = "Table name already exists" /\ tbSheets' = tbSheets)
       /\ UniqueTableNames(tbSheets')]_vars

\* createTable on the second sheet was refused because of a table of the
\* first sheet
C12_OtherSheetRejected ==
    /\ tbLast.op = "createTable"
    /\ tbLast.err = "Table name already exists"
    /\ tbLast.sheet = "S2"
    /\ tbSheets["S2"].tables = <<>>
    /\ tbSheets["S1"].tables # <<>>

\* ^[A-Za-z_][A-Za-z0-9_.]*$
IdentifierPattern(name) ==
    /\ name # <<>>
    /\ IsLetter(name[1]) \/ name[1] = "_"
    /\ \A i \in 2..Len(name) : IsLetter(name[i]) \/ IsDigit(name[i]) \/ name[i] \in {"_", "."}

\* C13: createTable accepts a name (one no table uses yet) exactly when it is
\* non-empty and matches ^[A-Za-z_][A-Za-z0-9_.]*$; for every other name it
\* throws "Invalid table name" and adds no table.
C13_NamePattern ==
    [][(/\ tbLast'.op = "createTable"
        /\ \A p \in TablesOf(tbSheets) : tbSheets[p[1]].tables[p[2]].name # tbLast'.name)
       => /\ IdentifierPattern(tbLast'.name) <=> tbLast'.err # "Invalid table name"
          /\ ~IdentifierPattern(tbLast'.name) => tbSheets' = tbSheets]_vars

\* C14: setTotalFunction throws when the table's total row is disabled or
\* the column name is not one of the table's columns, and then every
\* column's total function and every worksheet cell are as before.
C14_TotalFunctionRejected ==
    [][\A p \in TablesOf(tbSheets), c \in TotalColumns, fn \in TotalFunctions :
          LET t == tbSheets[p[1]].tables[p[2]]
          IN  (/\ SetTotalFunction(p[1], p[2], c, fn)
               /\ \/ ~t.totalRow
                  \/ \A k \in DOMAIN t.columns : t.columns[k].name # c)
              => (tbLast'.err # "" /\ tbSheets' = tbSheets)]_vars

\* setTotalFunction threw for an unknown column on a table that has a total
\* function and its formula cell
C14_UnknownColumnRejected ==
    /\ tbLast.op = "setTotalFunction"
    /\ tbLast.err = "Column not found"
    /\ \E p \in TablesOf(tbSheets) :
          LET t == tbSheets[p[1]].tables[p[2]]
          IN  /\ t.totalRow
              /\ \E k \in DOMAIN t.columns :
                    /\ t.columns[k].totalFunction = "sum"
                    /\ toAddress(t.range.end.row, t.columns[k].colIndex)
                          \in DOMAIN tbSheets[p[1]].cells

\* The SUBTOTAL codes that ignore hidden rows
IgnoreHiddenCodes ==
    [sum |-> 109, average |-> 101, count |-> 102, countNums |-> 103, max |-> 104,
     min |-> 105, stdDev |-> 107, var |-> 110]

\* SUBTOTAL(109,[Sales])
SubtotalSumOfSales ==
    <<"S", "U", "B", "T", "O", "T", "A", "L", "(", "1", "0", "9", ",", "[",
      "S", "a", "l", "e", "s", "]", ")">>

\* C15: after setTotalFunction(column, fn) succeeds with fn other than
\* 'none', the cell of the table's total row (the last row of its bound
\* range) under that column holds SUBTOTAL(code,[column]) with the
\* ignore-hidden-rows code of fn; on a table over A1:D7 (A1:D6 and its total
\* row) setTotalFunction('Sales', 'sum') puts SUBTOTAL(109,[Sales]) in C7.
C15_SubtotalFormula ==
    [][\A p \in TablesOf(tbSheets), c \in TotalColumns, fn \in TotalFunctions \ {"none"} :
          (SetTotalFunction(p[1], p[2], c, fn) /\ tbLast'.err = "")
          => LET t   == tbSheets'[p[1]].tables[p[2]]
                 col == t.columns[findColumn(t, c)].colIndex
                 key == toAddress(t.range.end.row, col)
             IN  /\ key \in DOMAIN tbSheets'[p[1]].cells
                 /\ getFormula(tbSheets'[p[1]].cells[key])
                       = Some(<<"S", "U", "B", "T", "O", "T", "A", "L", "(">>
                              \o NatToStr(IgnoreHiddenCodes[fn]) \o <<",", "[">> \o c
                              \o <<"]", ")">>)
                 /\ (/\ toRange(t.range) = <<"A", "1", ":", "D", "7">>
                     /\ c = <<"S", "a", "l", "e", "s">>
                     /\ fn = "sum")
                    => /\ <<"C", "7">> \in DOMAIN tbSheets'[p[1]].cells
                       /\ getFormula(tbSheets'[p[1]].cells[<<"C", "7">>])
                             = Some(SubtotalSumOfSales)]_vars

\* setTotalFunction('Sales', 'sum') succeeded on the table over A1:D7
C15_SumOfSalesInC7 ==
    /\ tbLast.op = "setTotalFunction"
    /\ tbLast.err = ""
    /\ tbSheets["S1"].tables # <<>>
    /\ toRange(tbSheets["S1"].tables[1].range) = <<"A", "1", ":", "D", "7">>
    /\ tbSheets["S1"].tables[1].columns[3].totalFunction = "sum"
    /\ <<"C", "7">> \in DOMAIN tbSheets["S1"].cells
    /\ getFormula(tbSheets["S1"].cells[<<"C", "7">>]) = Some(SubtotalSumOfSales)

\* The rows between the two corners of a range reference
RowsOfRef(ref) ==
    normalizeRange(parseRange(ref)).start.row .. normalizeRange(parseRange(ref)).end.row

\* C16: in every state reachable by createTable, setTotalRow,
\* setTotalFunction and setAutoFilter, the auto-filter range emitted for a
\* table with a total row does not contain the total row: it is the bound
\* range without its last row.
C16_AutoFilterExcludesTotalRow ==
    \A p \in TablesOf(tbSheets) :
        LET t   == tbSheets[p[1]].tables[p[2]]
            xml == tableXml(t)
        IN  (t.totalRow /\ xml.autoFilter.has)
            => /\ t.range.end.row \notin RowsOfRef(xml.autoFilter.s)
               /\ RowsOfRef(xml.autoFilter.s)
                     = RowsOfRef(xml.ref) \ {t.range.end.row}

(***************************************************************************)
(* Properties of reads.                                                    *)
(***************************************************************************)

\* C17: getCellIfExists and range.getValues({createMissing: false}) report
\* absent cells as undefined / null and leave the worksheet's cell map as it
\* was: same keys, same cells.
C17_ReadsDoNotVivify ==
    /\ rdLast.op = "getCellIfExists"
          => /\ ws.cells = rdLast.before
             /\ rdLast.found <=> CellKey(rdLast.arg) \in DOMAIN rdLast.before
    /\ rdLast.op = "getValues"
          => /\ ws.cells = rdLast.before
             /\ LET r == rangeOf(rdLast.arg)
                IN  /\ Len(rdLast.values) = r.end.row - r.start.row + 1
                    /\ \A i \in DOMAIN rdLast.values :
                          /\ Len(rdLast.values[i]) = r.end.col - r.start.col + 1
                          /\ \A j \in DOMAIN rdLast.values[i] :
                                LET key == toAddress(r.start.row + i - 1, r.start.col + j - 1)
                                IN  rdLast.values[i][j] =
                                       IF key \in DOMAIN rdLast.before
                                       THEN getValue(rdLast.before[key], rtStrings)
                                       ELSE NullValue

\* getValues({createMissing: false}) read a range of which one cell holds a
\* value and another is absent
C17_ReadOfSparseRange ==
    /\ rdLast.op = "getValues"
    /\ \E i \in DOMAIN rdLast.values : \E j \in DOMAIN rdLast.values[i] :
          rdLast.values[i][j].type \in {"number", "string"}
    /\ \E i \in DOMAIN rdLast.values : \E j \in DOMAIN rdLast.values[i] :
          LET r == rangeOf(rdLast.arg)
          IN  toAddress(r.start.row + i - 1, r.start.col + j - 1) \notin DOMAIN ws.cells

(***************************************************************************)
(* Properties of the preserved worksheet.                                  *)
(***************************************************************************)
OwnedTags == {"sheetViews", "cols", "sheetData", "mergeCells", "tableParts"}

\* The children the model does not own, in their order
OtherChildren(children) == SelectSeq(children, LAMBDA c : c.tag \notin OwnedTags)

\* C18: saving a worksheet that was parsed from an existing part replaces
\* only its sheetViews, cols, sheetData, mergeCells and tableParts children:
\* every other child of the worksheet element is emitted as it was read and
\* in its original relative order, whatever edits were made.
C18_OtherChildrenPreserved ==
    pxSaved => OtherChildren(pxChildren) = OtherChildren(pxOriginal)

\* A save after edits removed one owned element and appended another behind
\* the elements the model does not own
C18_SavedAfterEdits ==
    /\ pxSaved
    /\ Len(OtherChildren(pxOriginal)) >= 4
    /\ childIndex(pxOriginal, "tableParts") > 0
    /\ childIndex(pxChildren, "tableParts") = 0
    /\ \E i \in DOMAIN pxChildren :
          /\ pxChildren[i].tag \in OwnedTags
          /\ pxChildren[i] \notin Range(pxOriginal)
          /\ \A j \in DOMAIN pxChildren : pxChildren[j].tag \notin OwnedTags => j < i

(***************************************************************************)
(* Properties of renameSheet.                                              *)
(***************************************************************************)
\* What a successful renameSheet(o, n) leaves of the directory and the cache
RenameOnlyRekeys(o, n) ==
    /\ HasSheetNamed(sheetDefs', n)
    /\ ~HasSheetNamed(sheetDefs', o)
    /\ Len(sheetDefs') = Len(sheetDefs)
    /\ \A i \in DOMAIN sheetDefs :
          /\ sheetDefs'[i].sheetId = sheetDefs[i].sheetId
          /\ sheetDefs'[i].rId = sheetDefs[i].rId
          /\ sheetDefs'[i].name = IF sheetDefs[i].name = o THEN n ELSE sheetDefs[i].name
    /\ relationships' = relationships
    /\ DOMAIN sheets' = (DOMAIN sheets \ {o}) \cup (IF o \in DOMAIN sheets THEN {n} ELSE {})
    /\ o \in DOMAIN sheets =>
          /\ sheets'[n].cells = sheets[o].cells
          /\ sheets'[n].merged = sheets[o].merged
          /\ sheets[o].dirty => sheets'[n].dirty
    /\ \A x \in DOMAIN sheets \ {o} : sheets'[x] = sheets[x]

\* C19: renameSheet(oldName, newName) with an unused newName only re-keys
\* the sheet: sheet(newName) is the same worksheet with all its cells and
\* its dirty state, oldName is no longer a sheet, and the sheet's id,
\* relationship id and position, and every other sheet, are unchanged.
C19_RenameOnlyRekeys ==
    [][\A o \in SheetNames, n \in SheetNames :
          (RenameSheet(o, n) /\ last'.err = "") => RenameOnlyRekeys(o, n)]_vars

\* A sheet was renamed in a workbook of several sheets that all hold cells
C19_RenamedSheetWithCells ==
    /\ last = Call("renameSheet", "")
    /\ Len(sheetDefs) >= 2
    /\ \A i \in DOMAIN sheetDefs :
          /\ sheetDefs[i].name \in DOMAIN sheets
          /\ sheets[sheetDefs[i].name].cells # {}
    /\ \E i \in DOMAIN sheetDefs : sheetDefs[i].sheetId # i

(***************************************************************************)
(* Properties of the date conversions.                                     *)
(***************************************************************************)
\* 1900-01-01T00:00 is two days after the epoch, 1899-12-30
IsRealDate(date) == date >= 2 * SEC_PER_DAY

\* Serial numbers from 60 up to 61 are the days of the fictitious
\* 1900-02-29: every other serial number from 1 on denotes a real date
IsRealSerial(serial) ==
    /\ serial >= SEC_PER_DAY
    /\ ~(serial >= 60 * SEC_PER_DAY /\ serial < 61 * SEC_PER_DAY)

\* C20: the date conversions are exact inverses on real calendar dates: a
\* real calendar date converted to a serial number and back is the same
\* date, and a serial number that denotes a real date converted to a date
\* and back is the same serial number.
C20_DateConversionsInverse ==
    /\ (dtLast.op = "jsDateToExcel" /\ IsRealDate(dtLast.input)) => dtLast.back = dtLast.input
    /\ (dtLast.op = "excelDateToJs" /\ IsRealSerial(dtLast.input)) => dtLast.back = dtLast.input

\* The calendar day of a time, in days from 1899-12-30
CalendarDay(time) == time \div SEC_PER_DAY

\* C29: the two serial-to-date conversions agree: for every serial number,
\* Cell._excelDateToJs and PivotCache._excelSerialToDate return the same
\* calendar date.
C29_SerialToDateAgree ==
    dtLast.op = "serialToDate" => CalendarDay(dtLast.result) = CalendarDay(dtLast.pivot)

(***************************************************************************)
(* Properties of the address codec.                                        *)
(***************************************************************************)
\* C21: the column codec is a bijection without a zero digit:
\* letterToCol(colToLetter(c)) = c for every column c >= 0, with 25 -> Z and
\* 26 -> AA, and colToLetter(letterToCol(s)) = s for every non-empty
\* upper-case letter string s.
C21_ColumnCodecBijection ==
    /\ cdLast.op = "colToLetter" =>
          /\ cdLast.back = cdLast.col
          /\ cdLast.letters # <<>>
          /\ \A i \in DOMAIN cdLast.letters : cdLast.letters[i] \in Range(Upper)
          /\ cdLast.col = 25 => cdLast.letters = <<"Z">>
          /\ cdLast.col = 26 => cdLast.letters = <<"A", "A">>
    /\ cdLast.op = "letterToCol" =>
          /\ cdLast.lettersBack = cdLast.letters
          /\ cdLast.col >= 0

\* Column 702 was converted to its three letters and back
C21_ThreeLetterColumn ==
    /\ cdLast.op = "colToLetter"
    /\ cdLast.col = 702
    /\ cdLast.letters = <<"A", "A", "A">>
    /\ cdLast.back = 702

\* one or more letters followed by one or more digits
LettersThenDigits(str) ==
    \E k \in 1..(Len(str) - 1) :
        /\ \A i \in 1..k : IsLetter(str[i])
        /\ \A i \in (k + 1)..Len(str) : IsDigit(str[i])

\* C22: for every input string, parseAddress either fails with an
\* invalid-address error or returns a CellAddress whose row and col are both
\* non-negative; it fails whenever the string, after removing '$' anchors,
\* is not one or more letters followed by one or more digits.
C22_ParseAddressNonNegative ==
    cdLast.op = "parseAddress" =>
        /\ cdLast.ok => (cdLast.row >= 0 /\ cdLast.col >= 0)
        /\ ~LettersThenDigits(SelectSeq(cdLast.address, LAMBDA c : c # "$")) => ~cdLast.ok

(***************************************************************************)
(* Properties of PivotCache.buildFromData.                                 *)
(***************************************************************************)
\* The values of column i of the records, top to bottom
ColumnOf(records, i) == [r \in DOMAIN records |-> records[r][i]]

\* The distinct strings of a column, each once, in first-seen order
DistinctStrings(column) ==
    LET firsts == {r \in DOMAIN column :
                     /\ column[r].type = "string"
                     /\ \A q \in 1..(r - 1) : column[q] # column[r]}
    IN  [k \in 1..Cardinality(firsts) |->
            column[CHOOSE r \in firsts : Cardinality({q \in firsts : q <= r}) = k].s]

\* The field built from the non-blank values of a column alone
FieldWithoutBlanks(name, column) ==
    LET values == SelectSeq(column, LAMBDA v : v.type # "null")
    IN  buildFromData(<<name>>, [r \in DOMAIN values |-> <<values[r]>>])[1]

\* C23: buildFromData types each field from all of its values: a field with
\* any string has isNumeric = false and sharedItems holds exactly the
\* distinct strings of the column, each once, in first-seen order; a field
\* whose non-blank values are all numbers has isNumeric = true, no
\* sharedItems, and minValue / maxValue equal to its smallest and largest
\* value; blank values only set hasBlank and change no other result.
C23_FieldTypes ==
    \A i \in DOMAIN pcFields :
        LET column  == ColumnOf(pcRecords, i)
            field   == pcFields[i]
            numbers == {column[r].n : r \in {q \in DOMAIN column : column[q].type = "number"}}
        IN  /\ (\E r \in DOMAIN column : column[r].type = "string") =>
                  (~field.isNumeric /\ field.sharedItems = DistinctStrings(column))
            /\ (\A r \in DOMAIN column : column[r].type \in {"number", "null"}) =>
                  /\ field.isNumeric
                  /\ field.sharedItems = <<>>
                  /\ numbers # {} =>
                        /\ field.minValue.has /\ field.maxValue.has
                        /\ field.minValue.v \in numbers /\ field.maxValue.v \in numbers
                        /\ \A n \in numbers : field.minValue.v <= n /\ n <= field.maxValue.v
            /\ field.hasBlank = (\E r \in DOMAIN column : column[r].type = "null")
            /\ [field EXCEPT !.hasBlank = FALSE, !.index = 0]
                  = [FieldWithoutBlanks(field.name, column) EXCEPT !.hasBlank = FALSE]

\* A cache built from a column of a repeated string, a blank and another
\* string, next to a column of a number and blanks
C23_StringAndNumericFields ==
    /\ Len(pcFields) = 2
    /\ Len(pcRecords) = 3
    /\ pcFields[1].sharedItems = <<<<"b">>, <<"a">>>>
    /\ pcFields[1].hasBlank
    /\ pcFields[2].isNumeric
    /\ pcFields[2].hasBlank
    /\ pcFields[2].minValue = Defined(70)

(***************************************************************************)
(* Properties of the package a created or loaded workbook saves.           *)
(***************************************************************************)
\* The workbook relationships a sheet definition's relationship id matches
RelsOfSheet(def) == {r \in DOMAIN relationships : relationships[r].id = def.rId}

\* C24: in every state reachable through addSheet, deleteSheet, renameSheet,
\* copySheet and createPivotTable, each sheet definition's relationship id
\* matches exactly one workbook relationship, and after a save that
\* relationship's target part exists in the package.
C24_SheetRelationshipsResolve ==
    \A i \in DOMAIN sheetDefs :
        /\ Cardinality(RelsOfSheet(sheetDefs[i])) = 1
        /\ last.op = "toBuffer" =>
              \A r \in RelsOfSheet(sheetDefs[i]) : HasFile(files, XlPath(relationships[r].target))

\* A loaded workbook was saved after a sheet was added to it
C24_SavedLoadedWorkbook ==
    /\ last.op = "toBuffer"
    /\ HasRelOfType(relationships, "styles")
    /\ Len(sheetDefs) >= 2
    /\ everRIds # {}

\* The worksheet parts of the sheet directory
SheetPartsOf(defs, rels) ==
    {n \in Range([i \in DOMAIN defs |-> defs[i].name]) :
        FindIndex(rels, LAMBDA r : r.id = DefNamed(defs, n).rId) > 0}

\* Whether a save leaves a part that exists as it is
Kept(path) == HasFile(files, path) => files'[path] = files[path]

\* C25: on save, the shared-strings part is rewritten only if the shared
\* string table is dirty, the styles part only if the style table is dirty
\* or the part does not exist, and each worksheet part only if that
\* worksheet or the whole workbook is dirty; a part whose owner is not dirty
\* keeps the content it was loaded with.
C25_CleanPartsKept ==
    [][ToBuffer =>
          /\ ~wbSsDirty => Kept(SharedStringsPart)
          /\ ~wbDirty => Kept(StylesPart)
          /\ \A n \in SheetPartsOf(sheetDefs, relationships) :
                ~(wbDirty \/ (n \in DOMAIN sheets /\ sheets[n].dirty)) =>
                    Kept(SheetPathOf(sheetDefs, relationships, n))]_vars

\* C26: in every saved package that contains pivot caches, the r:id written
\* for each pivotCache entry in xl/workbook.xml is the Id of the relationship
\* in xl/_rels/workbook.xml.rels whose target is that cache's
\* pivotCacheDefinition part.
C26_PivotCacheRelIds ==
    (last.op = "toBuffer" /\ Len(pivotCaches) > 0) =>
        \A i \in DOMAIN files[WorkbookPart].pivotCaches :
            \E r \in DOMAIN files[RelsPart].rels :
                /\ files[RelsPart].rels[r].id = files[WorkbookPart].pivotCaches[i].rId
                /\ files[RelsPart].rels[r].target = <<"pivotCache/pivotCacheDefinition", i>>

\* C27: no two sheets of a workbook ever resolve to the same worksheet part
\* path: the relationship target addSheet assigns to a new sheet differs
\* from the target of every existing sheet relationship, also for sheets
\* loaded from a package whose part names do not follow their sheet ids.
C27_DistinctSheetParts ==
    \A n \in SheetPartsOf(sheetDefs, relationships), m \in SheetPartsOf(sheetDefs, relationships) :
        n # m => SheetPathOf(sheetDefs, relationships, n) # SheetPathOf(sheetDefs, relationships, m)

\* C28: deleting or renaming sheets never orphans a pivot table: every pivot
\* table part written on save is referenced by a pivot-table relationship in
\* the relationship file of an existing worksheet.
C28_NoOrphanPivotTables ==
    last.op = "toBuffer" =>
        \A i \in DOMAIN pivotTables :
            HasFile(files, PivotTablePart(i)) =>
                \E n \in SheetPartsOf(sheetDefs, relationships) :
                    LET target == relationships[FindIndex(relationships,
                                      LAMBDA r : r.id = DefNamed(sheetDefs, n).rId)].target
                    IN  /\ HasFile(files, SheetRelsPath(target))
                        /\ \E k \in DOMAIN files[SheetRelsPath(target)].rels :
                              files[SheetRelsPath(target)].rels[k].target
                                  = <<"../pivotTables/pivotTable", i>>

(***************************************************************************)
(* Properties of a table's bound range.                                    *)
(***************************************************************************)
\* The range a table of TotalRanges was created with: TotalRanges has one
\* range of each width and no call changes the columns of a bound range
CreationRange(t) ==
    CHOOSE c \in {parseRange(r) : r \in TotalRanges} : c.end.col = t.range.end.col

\* C30: a table's bound range never extends more than one row beyond the
\* range given at creation: after any sequence of setTotalRow(true) and
\* setTotalRow(false) calls the range's end row is at most the creation end
\* row plus one, and its start row and its columns are unchanged.
C30_RangeWithinOneRow ==
    \A s \in DOMAIN tbSheets : \A i \in DOMAIN tbSheets[s].tables :
        LET t == tbSheets[s].tables[i]
            c == CreationRange(t)
        IN  /\ t.range.end.row <= c.end.row + 1
            /\ t.range.start.row = c.start.row
            /\ t.range.start.col = c.start.col
            /\ t.range.end.col = c.end.col

\* The end row of the table created on A1:D6 stays within one row of row 6
EndRowOfWideTable ==
    \A s \in DOMAIN tbSheets : \A i \in DOMAIN tbSheets[s].tables :
        tbSheets[s].tables[i].range.end.col = 3 => tbSheets[s].tables[i].range.end.row <= 6

====
